---- MODULE Spec2Model ----
(***************************************************************************)
(* Verification model of reducto's process and protocol layer:             *)
(*   - lsp.BaseClient: the Content-Length JSON-RPC client and its          *)
(*     request/response correlator (internal/lsp/manager.go),              *)
(*   - mcp.Server: the NDJSON request loop and dispatcher,                 *)
(*   - sidecar.MCPManager: supervision of the sidecar child process,       *)
(*   - lsp.BaseClient.Shutdown: the once-only termination sequence,        *)
(*   - mcp.ApplyUnifiedDiff and the apply_diff handler: the patch engine.  *)
(*   - mcp.Server.Start statement by statement, BaseClient.readResponses   *)
(*     byte by byte, and the language clients' position conversion,        *)
(*   - sidecar.getOrCreateSidecarPath, the stdin writes of Call and        *)
(*     Notify, BaseClient.Initialize, the supervised operations of         *)
(*     MCPManager, and mcp.applyHunk on its own.                           *)
(* Each component has its own specification; the variables of the other    *)
(* components stay at their initial values under it.                       *)
(***************************************************************************)
EXTENDS Integers, Sequences, FiniteSets, TLC

VARIABLES
    \* ---- lsp.BaseClient ----
    requestID,   \* BaseClient.requestID (atomic.Int64)
    pending,     \* BaseClient.pending: request id -> delivery channel
    pendingMu,   \* BaseClient.pendingMu: "free" or its holder
    chanBuf,     \* buffer of the channel each Call invocation makes
    cpc,         \* position of each Call invocation
    cid,         \* the local `id` of each Call invocation
    ctxDone,     \* whether the invocation's context is done
    ret,         \* what the invocation returned
    rpc,         \* position of the readResponses goroutine
    rframe,      \* the frame body readResponses is delivering
    rtarget,     \* the channel readResponses found for it
    childAlive,  \* the language-server child process is running
    allocated,   \* ids in the order requestID.Add(1) returned them
    delivered,   \* number of sends readResponses did on each channel
    \* ---- sidecar.MCPManager ----
    goos,        \* runtime.GOOS: "windows" or "posix"
    process,     \* MCPManager.process: 0 (nil) or the child's pid
    cmd,         \* MCPManager.cmd: the exec.Cmd, NilCmd when never set
    child,       \* state of each child process started
    nstarts,     \* number of children started so far (the next pid)
    mpc,         \* position of each thread inside Stop
    mseen,       \* the process handle a thread read at the nil check
    sigCount,    \* termination signals sent to each child
    waitCount,   \* waits for exit performed on each child
    stopsSince,  \* Stop calls returned since the last Start call
    panicked,    \* the host process died of a nil dereference
    \* ---- mcp.Server ----
    spc,         \* Server.Start: "scan" in the loop, "returned" after it
    sctxDone,    \* the context passed to Server.Start is done
    nread,       \* lines scanner.Scan has returned
    slast,       \* the line read last
    sdisp,       \* the request handleRequest was called with last
    sout,        \* the responses encoder.Encode has written, in order
    sret,        \* what Start returned: "none" before, "ctx.Err()", "scanner.Err()"
    \* ---- lsp.BaseClient.Shutdown ----
    shpc,        \* position of each thread inside Shutdown
    onceDone,    \* shutdownOnce: the done flag of the sync.Once
    onceMu,      \* shutdownOnce: the mutex of the sync.Once, 0 or its holder
    stdinClosed, \* c.stdin.Close() has been called
    closeCount,  \* calls of c.stdin.Close()
    killCount,   \* calls of c.cmd.Process.Kill()
    reapCount,   \* calls of c.cmd.Wait()
    \* ---- mcp.ApplyUnifiedDiff / Server.handleApplyDiff ----
    dorig,       \* content of the target file when the request arrived
    ddiff,       \* input.Diff, as the lines strings.Split(diff, "\n") gives
    dexpect,     \* the text the diff was generated towards, when it was generated
    dfile,       \* content of the target file on disk
    dpc,         \* "request" before the handler ran, "responded" after
    dcalled,     \* the handler reached its ApplyUnifiedDiff call
    dres,        \* what that call returned
    dresp,       \* error code of the handler's response, 0 for a result
    \* ---- mcp.Server.handleRequest ----
    hreq,        \* the request handleRequest is called with
    hfailed,     \* the statement of the handler that fails, "none" for none
    hout,        \* what the handler of its method returns
    hresp,       \* the response handleRequest returned, NoResponse before
    \* ---- sidecar.MCPManager.WaitForResult ----
    resultChan,  \* MCPManager.resultChan: the buffer of the side channel
    wpc,         \* position of each thread inside WaitForResult
    wret,        \* what WaitForResult returned to each thread
    emitted,     \* RESULT: lines readResultFromStderr has decoded so far
    \* ---- mcp.Server.Start, statement by statement ----
    stdinLines,  \* the lines of stdin, in order
    scanned,     \* lines scanner.Scan has returned
    loopPc,      \* position of the loop: "scan", "handle", "encode", "returned"
    loopCtxDone, \* the context passed to Start is done
    handling,    \* the lines whose handler is executing
    resp,        \* the response about to be encoded, with the line it answers
    stdout,      \* the responses written to stdout, each with its line
    \* ---- lsp.BaseClient.readResponses, on the bytes of the child's stdout ----
    pieces,      \* what the child wrote, piece by piece
    stream,      \* the bytes the child wrote: c.stdout
    consumed,    \* bytes the bufio.Reader has handed out
    contentLength, \* the local contentLength
    bodies,      \* the bodies io.ReadFull has filled, in order
    waiting,     \* c.pending: the ids whose Call is waiting
    handed,      \* the ids whose body was sent on its channel, in order
    readerPc,    \* "loop" inside the for loop, "returned" after it
    \* ---- lsp.GoClient / PythonClient / TypeScriptClient ----
    pclient,     \* the client called: "go", "python" or "typescript"
    pmethod,     \* "FindReferences" or "GoToDefinition"
    ppublic,     \* the line and column the caller passed
    pwire,       \* the Position of the params handed to c.base.Call
    preply,      \* what c.base.Call returned
    presult,     \* the references, or the definition, returned to the caller
    ppc,         \* "idle", "sent" (inside c.base.Call), "returned"
    \* ---- sidecar.getOrCreateSidecarPath ----
    embeddedFS,  \* the package variable embeddedFS is set (not nil)
    embeddedOnce,\* the sync.Once: its done flag and its mutex, 0 or the holder
    extractedPath,\* the package variable extractedPath
    extractErr,  \* the package variable extractErr: TRUE for a non-nil error
    assetOK,     \* the sidecar files are where the lookup expects them
    gpc,         \* position of each thread inside getOrCreateSidecarPath
    gcalls,      \* calls each thread has made
    bodyRuns,    \* executions of the function handed to embeddedOnce.Do
    gret,        \* the (path, error) pairs the calls have returned
    \* ---- lsp.BaseClient.Call / Notify, the writes to c.stdin ----
    wrkind,      \* what each thread calls: "Call" or "Notify"
    wrpc,        \* position of each thread: "idle", "header", "body", "written", "failed"
    stdinBytes,  \* what c.stdin has received, write by write: the writer and the part
    pipeOpen,    \* the child holds the read end of the stdin pipe
    \* ---- lsp.BaseClient.Initialize / IsInitialized / Shutdown ----
    ipc,         \* position of Initialize: "idle", "initialize", "initialized", "returned"
    initialized, \* BaseClient.initialized
    iret,        \* what Initialize returned, "none" before
    isent,       \* the messages written to stdin: method and id, 0 for no id member
    inbox,       \* the response delivered to the Call of Initialize and of Shutdown
    ictxDone,    \* the context passed to Initialize is done
    sdpc,        \* position of Shutdown: "idle", "shutdown", "returned"
    serverUp,    \* the language server runs and reads its stdin
    \* ---- sidecar.MCPManager.Analyze / Deduplicate / Idiomatize / ApplyPattern / Check ----
    opname,      \* the operation called
    opc,         \* its position: "idle", "wait", "stop", "stopwait", "returned"
    opret,       \* what it returned, "none" before
    oprocess,    \* m.process is set (not nil)
    ochild,      \* the child of this operation: "none", "running", "exited"
    hostEnd,     \* the host holds clientOut, the write end of the pipe the server reads
    srvLoop,     \* the goroutine of m.server.Start: "none", "reading", "returned"
    stopCalls,   \* calls of m.Stop() the operation has made
    served,      \* lines of the child the server loop has answered
    \* ---- mcp.applyHunk, called on its own ----
    alines,      \* the lines applyHunk is called with
    ahunk,       \* the hunk it is called with
    aout,        \* the lines it returned
    apc          \* "call" before the call, "returned" after

lspVars == <<requestID, pending, pendingMu, chanBuf, cpc, cid, ctxDone, ret,
             rpc, rframe, rtarget, childAlive, allocated, delivered>>

mgrVars == <<goos, process, cmd, child, nstarts, mpc, mseen, sigCount,
             waitCount, stopsSince, panicked>>

srvVars == <<spc, sctxDone, nread, slast, sdisp, sout, sret>>

shutVars == <<shpc, onceDone, onceMu, stdinClosed, closeCount, killCount,
              reapCount>>

diffVars == <<dorig, ddiff, dexpect, dfile, dpc, dcalled, dres, dresp>>

handleVars == <<hreq, hfailed, hout, hresp>>

waitVars == <<resultChan, wpc, wret, emitted>>

loopVars == <<stdinLines, scanned, loopPc, loopCtxDone, handling, resp, stdout>>

frameVars == <<pieces, stream, consumed, contentLength, bodies, waiting, handed,
               readerPc>>

posVars == <<pclient, pmethod, ppublic, pwire, preply, presult, ppc>>

onceVars == <<embeddedFS, embeddedOnce, extractedPath, extractErr, assetOK, gpc,
              gcalls, bodyRuns, gret>>

writeVars == <<wrkind, wrpc, stdinBytes, pipeOpen>>

initVars == <<ipc, initialized, iret, isent, inbox, ictxDone, sdpc, serverUp>>

opVars == <<opname, opc, opret, oprocess, ochild, hostEnd, srvLoop, stopCalls,
            served>>

hunkVars == <<alines, ahunk, aout, apc>>

nonLspVars == <<mgrVars, srvVars, shutVars, diffVars, handleVars, waitVars,
                loopVars, frameVars, posVars, onceVars, writeVars, initVars,
                opVars, hunkVars>>

nonMgrVars == <<lspVars, srvVars, shutVars, diffVars, handleVars, waitVars,
                loopVars, frameVars, posVars, onceVars, writeVars, initVars,
                opVars, hunkVars>>

nonSrvVars == <<lspVars, mgrVars, shutVars, diffVars, handleVars, waitVars,
                loopVars, frameVars, posVars, onceVars, writeVars, initVars,
                opVars, hunkVars>>

nonShutVars == <<mgrVars, srvVars, diffVars, handleVars, waitVars, loopVars,
                 frameVars, posVars, onceVars, writeVars, initVars, opVars,
                 hunkVars>>

nonDiffVars == <<lspVars, mgrVars, srvVars, shutVars, handleVars, waitVars,
                 loopVars, frameVars, posVars, onceVars, writeVars, initVars,
                 opVars, hunkVars>>

nonHandleVars == <<lspVars, mgrVars, srvVars, shutVars, diffVars, waitVars,
                   loopVars, frameVars, posVars, onceVars, writeVars, initVars,
                   opVars, hunkVars>>

nonWaitVars == <<lspVars, mgrVars, srvVars, shutVars, diffVars, handleVars,
                 loopVars, frameVars, posVars, onceVars, writeVars, initVars,
                 opVars, hunkVars>>

nonLoopVars == <<lspVars, mgrVars, srvVars, shutVars, diffVars, handleVars,
                 waitVars, frameVars, posVars, onceVars, writeVars, initVars,
                 opVars, hunkVars>>

nonFrameVars == <<lspVars, mgrVars, srvVars, shutVars, diffVars, handleVars,
                  waitVars, loopVars, posVars, onceVars, writeVars, initVars,
                  opVars, hunkVars>>

nonPosVars == <<lspVars, mgrVars, srvVars, shutVars, diffVars, handleVars,
                waitVars, loopVars, frameVars, onceVars, writeVars, initVars,
                opVars, hunkVars>>

nonOnceVars == <<lspVars, mgrVars, srvVars, shutVars, diffVars, handleVars,
                 waitVars, loopVars, frameVars, posVars, writeVars, initVars,
                 opVars, hunkVars>>

nonWriteVars == <<lspVars, mgrVars, srvVars, shutVars, diffVars, handleVars,
                  waitVars, loopVars, frameVars, posVars, onceVars, initVars,
                  opVars, hunkVars>>

nonInitVars == <<lspVars, mgrVars, srvVars, shutVars, diffVars, handleVars,
                 waitVars, loopVars, frameVars, posVars, onceVars, writeVars,
                 opVars, hunkVars>>

nonOpVars == <<lspVars, mgrVars, srvVars, shutVars, diffVars, handleVars,
               waitVars, loopVars, frameVars, posVars, onceVars, writeVars,
               initVars, hunkVars>>

nonHunkVars == <<lspVars, mgrVars, srvVars, shutVars, diffVars, handleVars,
                 waitVars, loopVars, frameVars, posVars, onceVars, writeVars,
                 initVars, opVars>>

vars == <<lspVars, mgrVars, srvVars, shutVars, diffVars, handleVars, waitVars,
          loopVars, frameVars, posVars, onceVars, writeVars, initVars, opVars,
          hunkVars>>

(***************************************************************************)
(* Bounds                                                                  *)
(***************************************************************************)
\* Number of Call invocations on one BaseClient (sequential or concurrent).
NCalls == 2

Calls == 1..NCalls

(***************************************************************************)
(* lsp.BaseClient                                                          *)
(***************************************************************************)
\* make(chan json.RawMessage, 1)
ChanCap == 1

\* No channel: the `ok == false` result of the map lookup.
NoChan == 0

\* Frame bodies the child may write.  kind "badjson" is a body json.Unmarshal
\* rejects; a frame without an "id" member (a notification) has hasId = FALSE.
FrameIds == 0..NCalls

NoFrame == [hasId |-> FALSE, id |-> 0, kind |-> "none"]

Frames ==
    {[hasId |-> FALSE, id |-> 0, kind |-> "badjson"],
     [hasId |-> FALSE, id |-> 0, kind |-> "result"]}
    \cup [hasId : {TRUE}, id : FrameIds, kind : {"result", "error"}]

\* json.Unmarshal(body, &response) succeeded
DecodeOK(f) == f.kind # "badjson"

\* response.ID after json.Unmarshal: an absent "id" leaves the zero value
DecodedID(f) == IF f.hasId THEN f.id ELSE 0

NoReturn == [kind |-> "none", frame |-> NoFrame]

\* Mutation: the counter is read, not advanced (Load() in place of Add(1)).
LoadRequestID(cur) == cur

\* Mutation: every call numbers its request from a fresh counter.
ResetRequestID(cur) == 1

\* requestID.Add(1) returns the new value
NextRequestID(cur) == cur + 1

\* Mutation: the frame goes to whichever call is pending, whatever its id.
LookupAnyPending(p, rid) ==
    IF DOMAIN p # {} THEN p[CHOOSE k \in DOMAIN p : TRUE] ELSE NoChan

\* ch, ok := c.pending[response.ID]
LookupPending(p, rid) == IF rid \in DOMAIN p THEN p[rid] ELSE NoChan

\* Mutation: the entry stays in the map after delivery.
KeepPending(p, rid) == p

\* delete(c.pending, response.ID)
RemovePending(p, rid) == [k \in (DOMAIN p) \ {rid} |-> p[k]]

\* c.pending[id] = ch
AddPending(p, id, ch) ==
    [k \in (DOMAIN p) \cup {id} |-> IF k = id THEN ch ELSE p[k]]

\* The outcome Call derives from a delivered body (lines 476-493).
ParseResponse(f) ==
    IF f.kind = "badjson" THEN [kind |-> "parseErr", frame |-> f]
    ELSE IF f.kind = "error" THEN [kind |-> "lspError", frame |-> f]
    ELSE [kind |-> "result", frame |-> f]

\* c.stdin.Write succeeds while the child holds the read end of the pipe and
\* the client has not closed its own end
StdinWritable == childAlive /\ ~stdinClosed

LspInit ==
    /\ requestID = 0
    /\ pending = [k \in {} |-> NoChan]
    /\ pendingMu = "free"
    /\ chanBuf = [i \in Calls |-> <<>>]
    /\ cpc = [i \in Calls |-> "idle"]
    /\ cid = [i \in Calls |-> 0]
    /\ ctxDone = [i \in Calls |-> FALSE]
    /\ ret = [i \in Calls |-> NoReturn]
    /\ rpc = "read"
    /\ rframe = NoFrame
    /\ rtarget = NoChan
    /\ childAlive = TRUE
    /\ allocated = <<>>
    /\ delivered = [i \in Calls |-> 0]

\* Call, lines 446-458: allocate the id, marshal the request.
CallAlloc(i) ==
    /\ cpc[i] = "idle"
    /\ requestID' = NextRequestID(requestID)
    /\ cid' = [cid EXCEPT ![i] = requestID']
    /\ allocated' = Append(allocated, requestID')
    /\ \E marshalOK \in BOOLEAN :
          IF marshalOK
          THEN /\ cpc' = [cpc EXCEPT ![i] = "register"]
               /\ ret' = ret
          ELSE /\ cpc' = [cpc EXCEPT ![i] = "done"]
               /\ ret' = [ret EXCEPT ![i] = [kind |-> "marshalErr", frame |-> NoFrame]]
    /\ UNCHANGED nonLspVars
    /\ UNCHANGED <<pending, pendingMu, chanBuf, ctxDone, rpc, rframe, rtarget,
                   childAlive, delivered>>

\* Call, lines 460-463: make the channel and register it under the mutex.
CallRegister(i) ==
    /\ cpc[i] = "register"
    /\ pendingMu = "free"
    /\ pending' = AddPending(pending, cid[i], i)
    /\ cpc' = [cpc EXCEPT ![i] = "writeHeader"]
    /\ UNCHANGED nonLspVars
    /\ UNCHANGED <<requestID, pendingMu, chanBuf, cid, ctxDone, ret, rpc, rframe,
                   rtarget, childAlive, allocated, delivered>>

\* Call, lines 465-468: write the Content-Length header.
CallWriteHeader(i) ==
    /\ cpc[i] = "writeHeader"
    /\ IF StdinWritable
       THEN /\ cpc' = [cpc EXCEPT ![i] = "writeBody"]
            /\ ret' = ret
       ELSE /\ cpc' = [cpc EXCEPT ![i] = "done"]
            /\ ret' = [ret EXCEPT ![i] = [kind |-> "writeErr", frame |-> NoFrame]]
    /\ UNCHANGED nonLspVars
    /\ UNCHANGED <<requestID, pending, pendingMu, chanBuf, cid, ctxDone, rpc,
                   rframe, rtarget, childAlive, allocated, delivered>>

\* Call, lines 469-471: write the body.
CallWriteBody(i) ==
    /\ cpc[i] = "writeBody"
    /\ IF StdinWritable
       THEN /\ cpc' = [cpc EXCEPT ![i] = "select"]
            /\ ret' = ret
       ELSE /\ cpc' = [cpc EXCEPT ![i] = "done"]
            /\ ret' = [ret EXCEPT ![i] = [kind |-> "writeErr", frame |-> NoFrame]]
    /\ UNCHANGED nonLspVars
    /\ UNCHANGED <<requestID, pending, pendingMu, chanBuf, cid, ctxDone, rpc,
                   rframe, rtarget, childAlive, allocated, delivered>>

\* Call, lines 473-475: the select takes the ctx.Done() case.
CallCtxDone(i) ==
    /\ cpc[i] = "select"
    /\ ctxDone[i]
    /\ cpc' = [cpc EXCEPT ![i] = "done"]
    /\ ret' = [ret EXCEPT ![i] = [kind |-> "ctxErr", frame |-> NoFrame]]
    /\ UNCHANGED nonLspVars
    /\ UNCHANGED <<requestID, pending, pendingMu, chanBuf, cid, ctxDone, rpc,
                   rframe, rtarget, childAlive, allocated, delivered>>

\* Call, lines 476-494: the select takes the channel receive.
CallRecv(i) ==
    /\ cpc[i] = "select"
    /\ chanBuf[i] # <<>>
    /\ chanBuf' = [chanBuf EXCEPT ![i] = Tail(chanBuf[i])]
    /\ cpc' = [cpc EXCEPT ![i] = "done"]
    /\ ret' = [ret EXCEPT ![i] = ParseResponse(Head(chanBuf[i]))]
    /\ UNCHANGED nonLspVars
    /\ UNCHANGED <<requestID, pending, pendingMu, cid, ctxDone, rpc, rframe,
                   rtarget, childAlive, allocated, delivered>>

\* The caller's context is cancelled or its deadline passes.  Call reads the
\* context nowhere but in its select, so a cancellation that happens earlier
\* is the same as one that happens when the call has reached the select.
CtxCancel(i) ==
    /\ cpc[i] = "select"
    /\ ~ctxDone[i]
    /\ ctxDone' = [ctxDone EXCEPT ![i] = TRUE]
    /\ UNCHANGED nonLspVars
    /\ UNCHANGED <<requestID, pending, pendingMu, chanBuf, cpc, cid, ret, rpc,
                   rframe, rtarget, childAlive, allocated, delivered>>

\* readResponses, lines 403-428: one frame is read and decoded; under the
\* mutex its id is looked up and, when found, removed from the map.
ReaderFrame(f) ==
    /\ rpc = "read"
    /\ childAlive
    /\ pendingMu = "free"
    /\ IF DecodeOK(f) /\ LookupPending(pending, DecodedID(f)) # NoChan
       THEN /\ rtarget' = LookupPending(pending, DecodedID(f))
            /\ pending' = RemovePending(pending, DecodedID(f))
            /\ rframe' = f
            /\ pendingMu' = "reader"
            /\ rpc' = "send"
       ELSE UNCHANGED <<rtarget, pending, rframe, pendingMu, rpc>>
    /\ UNCHANGED nonLspVars
    /\ UNCHANGED <<requestID, chanBuf, cpc, cid, ctxDone, ret, childAlive,
                   allocated, delivered>>

\* readResponses, lines 429-431: ch <- body, then unlock.
ReaderSend ==
    /\ rpc = "send"
    /\ Len(chanBuf[rtarget]) < ChanCap
    /\ chanBuf' = [chanBuf EXCEPT ![rtarget] = Append(chanBuf[rtarget], rframe)]
    /\ delivered' = [delivered EXCEPT ![rtarget] = delivered[rtarget] + 1]
    /\ pendingMu' = "free"
    /\ rpc' = "read"
    /\ rframe' = NoFrame
    /\ rtarget' = NoChan
    /\ UNCHANGED nonLspVars
    /\ UNCHANGED <<requestID, pending, cpc, cid, ctxDone, ret, childAlive,
                   allocated>>

\* readResponses, lines 403-406 and 412-414: EOF or a read error ends the loop.
ReaderEOF ==
    /\ rpc = "read"
    /\ ~childAlive
    /\ rpc' = "exited"
    /\ UNCHANGED nonLspVars
    /\ UNCHANGED <<requestID, pending, pendingMu, chanBuf, cpc, cid, ctxDone, ret,
                   rframe, rtarget, childAlive, allocated, delivered>>

\* The child process exits; its ends of the pipes close.
ChildExit ==
    /\ childAlive
    /\ childAlive' = FALSE
    /\ UNCHANGED nonLspVars
    /\ UNCHANGED <<requestID, pending, pendingMu, chanBuf, cpc, cid, ctxDone, ret,
                   rpc, rframe, rtarget, allocated, delivered>>

CallStep(i) ==
    \/ CallAlloc(i)
    \/ CallRegister(i)
    \/ CallWriteHeader(i)
    \/ CallWriteBody(i)
    \/ CallCtxDone(i)
    \/ CallRecv(i)

ReaderStep ==
    \/ \E f \in Frames : ReaderFrame(f)
    \/ ReaderSend
    \/ ReaderEOF

(***************************************************************************)
(* lsp.BaseClient.readResponses, on the bytes of the child's stdout        *)
(***************************************************************************)
\* Bound: pieces (frames, stray lines) the child writes before it exits.
MaxPieces == 3

\* Bytes.  "C" stands for the sixteen bytes of "Content-Length: " and "\n"
\* for "\r\n"; lengths count in these units.
Digits == {"1", "2", "3"}

\* The value of one digit.
DigitValue(d) == CASE d = "1" -> 1 [] d = "2" -> 2 [] d = "3" -> 3 [] OTHER -> 0

RECURSIVE DecimalValue(_, _)
DecimalValue(str, acc) ==
    IF str = <<>> THEN acc
    ELSE DecimalValue(Tail(str), acc * 10 + DigitValue(Head(str)))

\* contentLength, _ = strconv.Atoi(lengthStr): 0 when lengthStr is no number
Atoi(str) ==
    IF str # <<>> /\ \A k \in 1..Len(str) : str[k] \in Digits
    THEN DecimalValue(str, 0)
    ELSE 0

\* Mutation: the length stays as the header set it.
LengthKept(n) == n

\* contentLength = 0, line 433
LengthReset(n) == 0

\* json.Unmarshal(body, &response): "{}" is an object without an id, "{d}"
\* stands for an object whose "id" is d; anything else is no JSON value.
Unmarshal(body) ==
    IF body = <<"{", "}">> THEN [ok |-> TRUE, id |-> 0]
    ELSE IF Len(body) = 3 /\ body[1] = "{" /\ body[2] \in Digits /\ body[3] = "}"
    THEN [ok |-> TRUE, id |-> DigitValue(body[2])]
    ELSE [ok |-> FALSE, id |-> 0]

\* What the child writes.  "frame1", "frame2": a frame for request 1 or 2;
\* "typed": a frame with a second header after Content-Length; "twice": a
\* frame with two Content-Length headers; "notify": a frame whose body has
\* no id; "badjson": a frame whose body is no JSON value; "badlen": a frame
\* whose Content-Length is no number; "blank": a stray empty line.
PieceBytes(piece) ==
    CASE piece = "frame1"  -> <<"C", "3", "\n", "\n", "{", "1", "}">>
      [] piece = "frame2"  -> <<"C", "3", "\n", "\n", "{", "2", "}">>
      [] piece = "typed"   -> <<"C", "3", "\n", "x", "\n", "\n", "{", "1", "}">>
      [] piece = "twice"   -> <<"C", "1", "\n", "C", "3", "\n", "\n", "{", "2", "}">>
      [] piece = "notify"  -> <<"C", "2", "\n", "\n", "{", "}">>
      [] piece = "badjson" -> <<"C", "3", "\n", "\n", "{", "x", "}">>
      [] piece = "badlen"  -> <<"C", "x", "\n", "\n", "{", "1", "}">>
      [] OTHER             -> <<"\n">>

Pieces == {"frame1", "frame2", "typed", "twice", "notify", "badjson", "badlen", "blank"}

RECURSIVE Concat(_)
Concat(ps) == IF ps = <<>> THEN <<>> ELSE PieceBytes(Head(ps)) \o Concat(Tail(ps))

\* The bytes not handed out yet.
Unread == SubSeq(stream, consumed + 1, Len(stream))

\* reader.ReadString('\n') finds a delimiter
HasLine == \E k \in 1..Len(Unread) : Unread[k] = "\n"

\* The bytes ReadString returns, the delimiter included.
NextLine ==
    LET k == CHOOSE k \in 1..Len(Unread) :
                 Unread[k] = "\n" /\ \A j \in 1..(k - 1) : Unread[j] # "\n"
    IN  SubSeq(Unread, 1, k)

\* strings.TrimSpace
TrimSpace(str) == SelectSeq(str, LAMBDA c : c # "\n")

FrameInit ==
    /\ pieces \in UNION {[1..n -> Pieces] : n \in 0..MaxPieces}
    /\ stream = Concat(pieces)
    /\ consumed = 0
    /\ contentLength = 0
    /\ bodies = <<>>
    /\ waiting = {1, 2}
    /\ handed = <<>>
    /\ readerPc = "loop"

\* The state in which no byte was written and the reader has not run.
FrameAtRest ==
    /\ pieces = <<>>
    /\ stream = <<>>
    /\ consumed = 0
    /\ contentLength = 0
    /\ bodies = <<>>
    /\ waiting = {1, 2}
    /\ handed = <<>>
    /\ readerPc = "loop"

\* readResponses, lines 403-406: ReadString meets the end of the stream.
ReadEnd ==
    /\ readerPc = "loop"
    /\ ~HasLine
    /\ consumed' = Len(stream)
    /\ readerPc' = "returned"
    /\ UNCHANGED <<pieces, stream, contentLength, bodies, waiting, handed>>
    /\ UNCHANGED nonFrameVars

\* readResponses, lines 403-407 and 438-441: a line that is not empty.
ReadHeader ==
    /\ readerPc = "loop"
    /\ HasLine
    /\ TrimSpace(NextLine) # <<>>
    /\ consumed' = consumed + Len(NextLine)
    /\ contentLength' = IF Head(TrimSpace(NextLine)) = "C"
                        THEN Atoi(Tail(TrimSpace(NextLine)))
                        ELSE contentLength
    /\ UNCHANGED <<pieces, stream, bodies, waiting, handed, readerPc>>
    /\ UNCHANGED nonFrameVars

\* readResponses, lines 403-436: an empty line; with contentLength > 0 the
\* body is read, decoded and handed to the Call that waits for its id.
ReadBlank ==
    /\ readerPc = "loop"
    /\ HasLine
    /\ TrimSpace(NextLine) = <<>>
    /\ LET at   == consumed + Len(NextLine)
           body == SubSeq(stream, at + 1, at + contentLength)
       IN  IF contentLength <= 0
           THEN /\ consumed' = at
                /\ UNCHANGED <<contentLength, bodies, waiting, handed, readerPc>>
           ELSE IF Len(stream) - at < contentLength
           THEN /\ consumed' = Len(stream)
                /\ readerPc' = "returned"
                /\ UNCHANGED <<contentLength, bodies, waiting, handed>>
           ELSE /\ consumed' = at + contentLength
                /\ bodies' = Append(bodies, body)
                /\ contentLength' = LengthReset(contentLength)
                /\ IF Unmarshal(body).ok /\ Unmarshal(body).id \in waiting
                   THEN /\ waiting' = waiting \ {Unmarshal(body).id}
                        /\ handed' = Append(handed, Unmarshal(body).id)
                   ELSE UNCHANGED <<waiting, handed>>
                /\ UNCHANGED readerPc
    /\ UNCHANGED <<pieces, stream>>
    /\ UNCHANGED nonFrameVars

(***************************************************************************)
(* lsp.GoClient, lsp.PythonClient, lsp.TypeScriptClient: positions         *)
(***************************************************************************)
\* Bounds: lines and columns of a position, locations of one reply.
MaxPos == 2

MaxLocations == 2

Clients == {"go", "python", "typescript"}

\* Mutation: the public line is sent as it is.
WirePositionUnshifted(client, line, column) == [Line |-> line, Character |-> column]

\* Position{Line: line - 1, Character: column}, in each client
WirePosition(client, line, column) ==
    CASE client = "go"         -> [Line |-> line - 1, Character |-> column]
      [] client = "python"     -> [Line |-> line - 1, Character |-> column]
      [] client = "typescript" -> [Line |-> line - 1, Character |-> column]

\* Mutation: the column is shifted like the line.
PublicPositionShiftsBoth(client, loc) ==
    [Line |-> loc.Line + 1, Column |-> loc.Character + 1]

\* Reference{Line: loc.Range.Start.Line + 1, Column: loc.Range.Start.Character}
\* and the same fields of Definition, in each client
PublicPosition(client, loc) ==
    CASE client = "go"         -> [Line |-> loc.Line + 1, Column |-> loc.Character]
      [] client = "python"     -> [Line |-> loc.Line + 1, Column |-> loc.Character]
      [] client = "typescript" -> [Line |-> loc.Line + 1, Column |-> loc.Character]

\* The start positions of the locations a language server may return.
WirePositions == [Line : 0..MaxPos, Character : 0..(MaxPos - 1)]

NoPosition == [Line |-> -1, Character |-> -1]

\* c.base.Call returned an error, or the result did not decode
NoReply == [ok |-> FALSE, locations |-> <<>>]

\* The results c.base.Call may return: a list of locations for
\* textDocument/references, one location for textDocument/definition.
Replies(method) ==
    {NoReply} \cup
    [ok : {TRUE},
     locations : IF method = "FindReferences"
                 THEN UNION {[1..n -> WirePositions] : n \in 0..MaxLocations}
                 ELSE [1..1 -> WirePositions]]

PosInit ==
    /\ pclient \in Clients
    /\ pmethod \in {"FindReferences", "GoToDefinition"}
    /\ ppublic \in [Line : 1..MaxPos, Column : 0..(MaxPos - 1)]
    /\ pwire = NoPosition
    /\ preply = NoReply
    /\ presult = <<>>
    /\ ppc = "idle"

\* The state in which no client is called.
PosAtRest ==
    /\ pclient = "go"
    /\ pmethod = "FindReferences"
    /\ ppublic = [Line |-> 1, Column |-> 0]
    /\ pwire = NoPosition
    /\ preply = NoReply
    /\ presult = <<>>
    /\ ppc = "idle"

\* FindReferences / GoToDefinition build params and call c.base.Call.
PosSend ==
    /\ ppc = "idle"
    /\ pwire' = WirePosition(pclient, ppublic.Line, ppublic.Column)
    /\ ppc' = "sent"
    /\ UNCHANGED <<pclient, pmethod, ppublic, preply, presult>>
    /\ UNCHANGED nonPosVars

\* c.base.Call returns; the locations are decoded and converted.
PosReturn(reply) ==
    /\ ppc = "sent"
    /\ reply \in Replies(pmethod)
    /\ preply' = reply
    /\ presult' = [k \in 1..Len(reply.locations) |->
                      PublicPosition(pclient, reply.locations[k])]
    /\ ppc' = "returned"
    /\ UNCHANGED <<pclient, pmethod, ppublic, pwire>>
    /\ UNCHANGED nonPosVars

(***************************************************************************)
(* lsp.BaseClient.Shutdown                                                 *)
(***************************************************************************)
\* Every thread calls Shutdown at most once; thread t's Shutdown makes Call
\* invocation t of the client.
ShutThreads == Calls

\* Mutation: the function runs on every Do, whatever the done flag says.
OnceAlwaysRuns(done) == TRUE

\* sync.Once.Do: the function runs only while the done flag is unset
OnceMustRun(done) == ~done

ShutInit ==
    /\ shpc = [t \in ShutThreads |-> "idle"]
    /\ onceDone = FALSE
    /\ onceMu = 0
    /\ stdinClosed = FALSE
    /\ closeCount = 0
    /\ killCount = 0
    /\ reapCount = 0

\* Shutdown, line 538: shutdownOnce.Do, the fast path reads the done flag.
ShutdownEnter(t) ==
    /\ shpc[t] = "idle"
    /\ shpc' = [shpc EXCEPT ![t] = IF OnceMustRun(onceDone) THEN "lock" ELSE "returned"]
    /\ UNCHANGED <<onceDone, onceMu, stdinClosed, closeCount, killCount, reapCount>>
    /\ UNCHANGED <<lspVars, nonShutVars>>

\* sync.Once.doSlow: take the mutex, read the done flag again.
OnceLock(t) ==
    /\ shpc[t] = "lock"
    /\ onceMu = 0
    /\ onceMu' = t
    /\ shpc' = [shpc EXCEPT ![t] = IF OnceMustRun(onceDone) THEN "call" ELSE "unlock"]
    /\ UNCHANGED <<onceDone, stdinClosed, closeCount, killCount, reapCount>>
    /\ UNCHANGED <<lspVars, nonShutVars>>

\* Shutdown, lines 539-540: c.Call(context.Background(), "shutdown", nil).
\* The nil params always marshal, and the background context is never done.
ShutdownCall(t) ==
    /\ shpc[t] = "call"
    /\ \/ CallAlloc(t)
       \/ CallRegister(t)
       \/ CallWriteHeader(t)
       \/ CallWriteBody(t)
       \/ CallRecv(t)
    /\ ret'[t].kind # "marshalErr"

\* Shutdown, line 540: the Call has returned.
ShutdownCallReturned(t) ==
    /\ shpc[t] = "call"
    /\ cpc[t] = "done"
    /\ shpc' = [shpc EXCEPT ![t] = "close"]
    /\ UNCHANGED <<onceDone, onceMu, stdinClosed, closeCount, killCount, reapCount>>
    /\ UNCHANGED <<lspVars, nonShutVars>>

\* Shutdown, line 541: c.stdin.Close().
ShutdownClose(t) ==
    /\ shpc[t] = "close"
    /\ stdinClosed' = TRUE
    /\ closeCount' = closeCount + 1
    /\ shpc' = [shpc EXCEPT ![t] = "kill"]
    /\ UNCHANGED <<onceDone, onceMu, killCount, reapCount>>
    /\ UNCHANGED <<lspVars, nonShutVars>>

\* Shutdown, lines 542-543: c.cmd.Process.Kill(); its error is dropped.
ShutdownKill(t) ==
    /\ shpc[t] = "kill"
    /\ childAlive' = FALSE
    /\ killCount' = killCount + 1
    /\ shpc' = [shpc EXCEPT ![t] = "wait"]
    /\ UNCHANGED <<onceDone, onceMu, stdinClosed, closeCount, reapCount>>
    /\ UNCHANGED <<requestID, pending, pendingMu, chanBuf, cpc, cid, ctxDone, ret,
                   rpc, rframe, rtarget, allocated, delivered>>
    /\ UNCHANGED nonShutVars

\* Shutdown, line 544: c.cmd.Wait() returns once the killed child is gone.
ShutdownWait(t) ==
    /\ shpc[t] = "wait"
    /\ ~childAlive
    /\ reapCount' = reapCount + 1
    /\ shpc' = [shpc EXCEPT ![t] = "unlock"]
    /\ UNCHANGED <<onceDone, onceMu, stdinClosed, closeCount, killCount>>
    /\ UNCHANGED <<lspVars, nonShutVars>>

\* sync.Once.doSlow: the deferred done.Store(1) and Unlock; Shutdown returns.
OnceUnlock(t) ==
    /\ shpc[t] = "unlock"
    /\ onceDone' = TRUE
    /\ onceMu' = 0
    /\ shpc' = [shpc EXCEPT ![t] = "returned"]
    /\ UNCHANGED <<stdinClosed, closeCount, killCount, reapCount>>
    /\ UNCHANGED <<lspVars, nonShutVars>>

ShutdownStep(t) ==
    \/ ShutdownEnter(t)
    \/ OnceLock(t)
    \/ ShutdownCall(t)
    \/ ShutdownCallReturned(t)
    \/ ShutdownClose(t)
    \/ ShutdownKill(t)
    \/ ShutdownWait(t)
    \/ OnceUnlock(t)

(***************************************************************************)
(* sidecar.MCPManager                                                      *)
(***************************************************************************)
\* Bounds: children started, threads calling Stop, Stop calls between Starts.
MaxStarts == 2

NThreads == 2

MaxStops == 2

Threads == 1..NThreads

Pids == 1..MaxStarts

\* m.process == nil
NilProcess == 0

\* m.cmd == nil, and the exec.Cmd states Stop can meet: a Cmd whose Start
\* failed or never ran has started = FALSE; waited is c.ProcessState != nil.
NilCmd == [set |-> FALSE, started |-> FALSE, pid |-> 0, waited |-> FALSE]

NewCmd(started, pid) ==
    [set |-> TRUE, started |-> started, pid |-> pid, waited |-> FALSE]

\* NewMCPManager: no command, no process.
MgrInit ==
    /\ goos \in {"windows", "posix"}
    /\ process = NilProcess
    /\ cmd = NilCmd
    /\ child = [p \in Pids |-> "none"]
    /\ nstarts = 0
    /\ mpc = [t \in Threads |-> "idle"]
    /\ mseen = [t \in Threads |-> NilProcess]
    /\ sigCount = [p \in Pids |-> 0]
    /\ waitCount = [p \in Pids |-> 0]
    /\ stopsSince = 0
    /\ panicked = FALSE

AllIdle == \A t \in Threads : mpc[t] = "idle"

\* IsRunning: a handle is held and signal 0 reaches the process (os.Process
\* refuses to signal a process that was already waited for).
IsRunning ==
    /\ process # NilProcess
    /\ ~(cmd.set /\ cmd.started /\ cmd.pid = process /\ cmd.waited)

\* Start, lines 53-132, as one step of the calling thread.  "early": python or
\* the sidecar path is missing (nothing assigned); "late": a pipe or cmd.Start
\* failed after m.cmd was assigned; "ok": the child runs and m.process is set.
MgrStart(outcome) ==
    /\ ~panicked
    /\ AllIdle
    /\ outcome \in {"early", "late", "ok"}
    /\ stopsSince' = 0
    /\ CASE outcome = "early" ->
              UNCHANGED <<process, cmd, child, nstarts>>
         [] outcome = "late" ->
              /\ cmd' = NewCmd(FALSE, 0)
              /\ UNCHANGED <<process, child, nstarts>>
         [] outcome = "ok" ->
              /\ nstarts < MaxStarts
              /\ nstarts' = nstarts + 1
              /\ cmd' = NewCmd(TRUE, nstarts')
              /\ process' = nstarts'
              /\ child' = [child EXCEPT ![nstarts'] = "running"]
    /\ UNCHANGED <<goos, mpc, mseen, sigCount, waitCount, panicked>>
    /\ UNCHANGED nonMgrVars

\* Stop, line 156: `if m.process != nil`; a nil handle returns at once.
StopCheck(t) ==
    /\ ~panicked
    /\ mpc[t] = "idle"
    /\ stopsSince < MaxStops
    /\ mseen' = [mseen EXCEPT ![t] = process]
    /\ IF process # NilProcess
       THEN /\ mpc' = [mpc EXCEPT ![t] = "signal"]
            /\ UNCHANGED stopsSince
       ELSE /\ mpc' = mpc
            /\ stopsSince' = stopsSince + 1
    /\ UNCHANGED <<goos, process, cmd, child, nstarts, sigCount, waitCount, panicked>>
    /\ UNCHANGED nonMgrVars

\* Stop, lines 157-161: m.process.Kill() or syscall.Kill(-m.process.Pid,
\* SIGTERM): Kill ends the process, SIGTERM asks the process group to exit.
\* m.process is read again without synchronisation: when another
\* thread has cleared it meanwhile, the read yields nil (nil dereference) or
\* the value this thread saw at line 156.
StopSignal(t) ==
    /\ ~panicked
    /\ mpc[t] = "signal"
    /\ \E h \in {process, mseen[t]} :
          IF h = NilProcess
          THEN /\ panicked' = TRUE
               /\ UNCHANGED <<sigCount, child, mpc>>
          ELSE /\ sigCount' = [sigCount EXCEPT ![h] = sigCount[h] + 1]
               /\ child' = IF goos = "windows" /\ child[h] = "running"
                            THEN [child EXCEPT ![h] = "exited"]
                            ELSE child
               /\ mpc' = [mpc EXCEPT ![t] = "wait"]
               /\ UNCHANGED panicked
    /\ UNCHANGED <<goos, process, cmd, nstarts, mseen, waitCount, stopsSince>>
    /\ UNCHANGED nonMgrVars

\* Stop, lines 162-164: `if m.cmd != nil { m.cmd.Wait() }`.  Wait returns an
\* error at once on a Cmd that was not started or was already waited for, and
\* otherwise blocks until the child has exited.
StopWait(t) ==
    /\ ~panicked
    /\ mpc[t] = "wait"
    /\ IF cmd.set /\ cmd.started /\ ~cmd.waited
       THEN /\ child[cmd.pid] = "exited"
            /\ waitCount' = [waitCount EXCEPT ![cmd.pid] = waitCount[cmd.pid] + 1]
            /\ cmd' = [cmd EXCEPT !.waited = TRUE]
       ELSE UNCHANGED <<waitCount, cmd>>
    /\ mpc' = [mpc EXCEPT ![t] = "clear"]
    /\ UNCHANGED <<goos, process, child, nstarts, mseen, sigCount, stopsSince, panicked>>
    /\ UNCHANGED nonMgrVars

\* Mutation: Stop returns without clearing the handle.
StopKeepsProcess(t) ==
    /\ ~panicked
    /\ mpc[t] = "clear"
    /\ mpc' = [mpc EXCEPT ![t] = "idle"]
    /\ stopsSince' = stopsSince + 1
    /\ UNCHANGED <<goos, process, cmd, child, nstarts, mseen, sigCount, waitCount, panicked>>
    /\ UNCHANGED nonMgrVars

\* Stop, lines 165-166: m.process = nil, return.
StopClear(t) ==
    /\ ~panicked
    /\ mpc[t] = "clear"
    /\ process' = NilProcess
    /\ mpc' = [mpc EXCEPT ![t] = "idle"]
    /\ stopsSince' = stopsSince + 1
    /\ UNCHANGED <<goos, cmd, child, nstarts, mseen, sigCount, waitCount, panicked>>
    /\ UNCHANGED nonMgrVars

\* The child exits: after the termination signal, or on its own.
MgrChildExit(p) ==
    /\ ~panicked
    /\ child[p] = "running"
    /\ child' = [child EXCEPT ![p] = "exited"]
    /\ UNCHANGED <<goos, process, cmd, nstarts, mpc, mseen, sigCount, waitCount,
                   stopsSince, panicked>>
    /\ UNCHANGED nonMgrVars

(***************************************************************************)
(* sidecar.MCPManager.WaitForResult and the side channel                   *)
(***************************************************************************)
\* Bound: RESULT: lines the children write to stderr.  Results are numbered
\* in the order readResultFromStderr decodes them.
MaxResults == 2

\* make(chan map[string]interface{}, 1)
ResultChanCap == 1

\* What WaitForResult returned: the result, or the timeout error; at is the
\* number of results decoded when it returned.
NoWaitReturn == [kind |-> "none", value |-> 0, at |-> 0]

\* Mutation: the side channel has no buffer, and a send that finds no
\* receiver is dropped.
SendUnbuffered(ch, r) == ch

\* Mutation: a new result takes the place of the one not yet consumed.
SendLatest(ch, r) == <<r>>

\* select { case m.resultChan <- result: default: }
SendOrDrop(ch, r) == IF Len(ch) < ResultChanCap THEN Append(ch, r) ELSE ch

WaitInit ==
    /\ resultChan = <<>>
    /\ wpc = [t \in Threads |-> "idle"]
    /\ wret = [t \in Threads |-> NoWaitReturn]
    /\ emitted = 0

\* readResultFromStderr, lines 136-149: a RESULT: line that decodes is sent
\* on the side channel, or dropped when the send would block.
StderrResult ==
    /\ emitted < MaxResults
    /\ \E p \in Pids : child[p] # "none"
    /\ emitted' = emitted + 1
    /\ resultChan' = SendOrDrop(resultChan, emitted')
    /\ UNCHANGED <<wpc, wret>>
    /\ UNCHANGED nonWaitVars

\* WaitForResult, lines 169-170: the call reaches its select; time.After
\* arms the timer.
WaitBegin(t) ==
    /\ wpc[t] = "idle"
    /\ wpc' = [wpc EXCEPT ![t] = "select"]
    /\ UNCHANGED <<resultChan, wret, emitted>>
    /\ UNCHANGED nonWaitVars

\* WaitForResult, lines 171-172: the select takes the receive.
WaitRecv(t) ==
    /\ wpc[t] = "select"
    /\ resultChan # <<>>
    /\ resultChan' = Tail(resultChan)
    /\ wret' = [wret EXCEPT ![t] =
                   [kind |-> "result", value |-> Head(resultChan), at |-> emitted]]
    /\ wpc' = [wpc EXCEPT ![t] = "returned"]
    /\ UNCHANGED emitted
    /\ UNCHANGED nonWaitVars

\* WaitForResult, lines 173-174: the timer has fired and the select takes it.
WaitTimeout(t) ==
    /\ wpc[t] = "select"
    /\ wret' = [wret EXCEPT ![t] = [kind |-> "timeout", value |-> 0, at |-> emitted]]
    /\ wpc' = [wpc EXCEPT ![t] = "returned"]
    /\ UNCHANGED <<resultChan, emitted>>
    /\ UNCHANGED nonWaitVars

(***************************************************************************)
(* mcp.Server                                                              *)
(***************************************************************************)
\* Bound: request lines read on one connection.
MaxLines == 3

\* protocol.go, lines 75-89
ParseError == -32700

InvalidRequest == -32600

MethodNotFound == -32601

InvalidParams == -32602

InternalError == -32603

FileNotFound == -32001

GitConflict == -32004

\* The nil id, and the ids a request line may carry.
NullId == 0

LineIds == {NullId, 7}

\* Mutation: one handler is missing from the table.
TableWithoutComplexity ==
    {"initialize", "shutdown", "read_file", "get_symbols", "get_ast",
     "find_references", "apply_diff", "run_tests", "git_checkpoint",
     "git_rollback", "list_files"}

\* getHandler's table.
DispatchTable ==
    {"initialize", "shutdown", "read_file", "get_symbols", "get_ast",
     "find_references", "apply_diff", "run_tests", "git_checkpoint",
     "git_rollback", "list_files", "get_complexity"}

\* Input lines.  form "empty": a line of length 0; "invalid": bytes that are
\* not a JSON value, or a JSON value that is no object; "mistyped": a JSON
\* object with a member json.Unmarshal cannot store in Request (a number for
\* "method"); "object": a JSON object that decodes into Request.  jsonrpc is
\* the decoded field ("" when the member is absent), method likewise.
LineMethods == {"initialize", "shutdown", "get_ast", "read_file", "bogus", ""}

Lines ==
    {[form |-> "empty", jsonrpc |-> "", method |-> "", id |-> NullId],
     [form |-> "invalid", jsonrpc |-> "", method |-> "", id |-> NullId],
     [form |-> "mistyped", jsonrpc |-> "2.0", method |-> "", id |-> 7]}
    \cup [form : {"object"}, jsonrpc : {"2.0"}, method : LineMethods, id : LineIds]
    \cup [form : {"object"}, jsonrpc : {"1.0", ""}, method : {"initialize"},
          id : LineIds]

NoLine == [form |-> "none", jsonrpc |-> "", method |-> "", id |-> NullId]

NoRequest == [method |-> "", id |-> NullId, seen |-> FALSE]

\* Whether the bytes of the line are a JSON value.
ValidJSON(l) == l.form \in {"mistyped", "object"}

\* Mutation: the version field is not compared.
ParseRequestAnyVersion(l) ==
    IF l.form # "object"
    THEN [ok |-> FALSE, req |-> NoRequest]
    ELSE [ok |-> TRUE, req |-> [method |-> l.method, id |-> l.id, seen |-> TRUE]]

\* ParseRequest: json.Unmarshal into Request, then the version comparison.
ParseRequest(l) ==
    IF l.form # "object"
    THEN [ok |-> FALSE, req |-> NoRequest]
    ELSE IF l.jsonrpc # "2.0"
    THEN [ok |-> FALSE, req |-> NoRequest]
    ELSE [ok |-> TRUE, req |-> [method |-> l.method, id |-> l.id, seen |-> TRUE]]

\* A value of type interface{}: nil, or a result map with its "status" and
\* "tools" members ("" and {} when the map has none).
NilValue == [nil |-> TRUE, status |-> "", tools |-> {}]

Value(status, tools) == [nil |-> FALSE, status |-> status, tools |-> tools]

\* Response.Error: a nil pointer, or NewError(code, message, data).  A message
\* or data taken from err.Error() is "err"; nil data is "nil".
NoError == [set |-> FALSE, code |-> 0, message |-> "", data |-> "nil"]

NewError(code, message, data) ==
    [set |-> TRUE, code |-> code, message |-> message, data |-> data]

SuccessResponse(id, result) == [id |-> id, result |-> result, error |-> NoError]

ErrorResponse(id, code, message, data) ==
    [id |-> id, result |-> NilValue, error |-> NewError(code, message, data)]

NoResponse == [id |-> NullId, result |-> NilValue, error |-> NoError]

\* handleInitialize: the "tools" member of its result
AdvertisedTools ==
    {"read_file", "get_symbols", "get_ast", "find_references", "apply_diff",
     "run_tests", "git_checkpoint", "git_rollback", "list_files", "get_complexity"}

\* What a handler returns: a result ("ok"), a typed *ErrorObject ("rpc") or
\* any other error ("generic").
NoOutcome ==
    [kind |-> "none", result |-> NilValue, code |-> 0, message |-> "", data |-> "nil"]

Ok(result) ==
    [kind |-> "ok", result |-> result, code |-> 0, message |-> "", data |-> "nil"]

Failed(kind, code, message, data) ==
    [kind |-> kind, result |-> NilValue, code |-> code, message |-> message,
     data |-> data]

\* The statements of each handler that can fail; "none": none of them does.
\*   "params"     json.Unmarshal(params, &input)
\*   "read"       os.ReadFile
\*   "resolve"    filepath.Abs
\*   "lsp"        s.lspMgr.FindReferences: no client for the language, or the
\*                client's call fails
\*   "write"      os.WriteFile
\*   "run"        s.runner.RunTests
\*   "checkpoint" s.gitMgr.CreateCheckpoint, "commit" s.gitMgr.CurrentCommit
\*   "rollback"   s.gitMgr.Rollback
\*   "walk"       w.Walk
HandlerSteps(method) ==
    CASE method \in {"read_file", "get_symbols", "get_complexity"} ->
            {"none", "params", "read"}
      [] method = "find_references" -> {"none", "params", "resolve", "lsp"}
      [] method = "apply_diff" -> {"none", "params", "read", "write"}
      [] method = "run_tests" -> {"none", "run"}
      [] method = "git_checkpoint" -> {"none", "checkpoint", "commit"}
      [] method = "git_rollback" -> {"none", "rollback"}
      [] method = "list_files" -> {"none", "walk"}
      [] OTHER -> {"none"}

\* What the handler of the method returns when the given statement fails.
\* A failing language-server lookup is returned as a result: a map with no
\* references and an "error" member.
HandlerOn(method, step) ==
    CASE method \notin DispatchTable -> NoOutcome
      [] method = "initialize" -> Ok(Value("initialized", AdvertisedTools))
      [] method = "shutdown" -> Ok(Value("shutdown", {}))
      [] method = "get_ast" ->
            Failed("rpc", InternalError,
                   "AST extraction not yet implemented with Tree-sitter", "nil")
      [] step = "params" -> Failed("rpc", InvalidParams, "Invalid params", "err")
      [] step = "read" -> Failed("rpc", FileNotFound, "Failed to read file", "err")
      [] step = "resolve" -> Failed("rpc", InternalError, "Failed to resolve path", "err")
      [] step = "write" -> Failed("rpc", InternalError, "Failed to write file", "err")
      [] step = "run" -> Failed("rpc", InternalError, "Failed to run tests", "err")
      [] step = "checkpoint" ->
            Failed("rpc", GitConflict, "Failed to create checkpoint", "err")
      [] step = "commit" -> Failed("rpc", InternalError, "Failed to get commit hash", "err")
      [] step = "rollback" -> Failed("rpc", GitConflict, "Failed to rollback", "err")
      [] step = "walk" -> Failed("rpc", InternalError, "Failed to list files", "err")
      [] OTHER -> Ok(Value("", {}))

\* The returns of each handler of the table.
HandlerOutcomes(method) == {HandlerOn(method, step) : step \in HandlerSteps(method)}

\* Mutation: a missing handler is reported as an internal failure.
HandleRequestNoLookup(req, o) ==
    IF o.kind = "ok" THEN SuccessResponse(req.id, o.result)
    ELSE IF o.kind = "rpc" THEN ErrorResponse(req.id, o.code, o.message, o.data)
    ELSE ErrorResponse(req.id, InternalError, o.message, "nil")

\* Mutation: every handler failure is wrapped as an internal error.
HandleRequestWrapsAll(req, o) ==
    IF req.method \notin DispatchTable
    THEN ErrorResponse(req.id, MethodNotFound, "Method not found", req.method)
    ELSE IF o.kind = "ok" THEN SuccessResponse(req.id, o.result)
    ELSE ErrorResponse(req.id, InternalError, o.message, "nil")

\* handleRequest, lines 138-153.
HandleRequest(req, o) ==
    IF req.method \notin DispatchTable
    THEN ErrorResponse(req.id, MethodNotFound, "Method not found", req.method)
    ELSE IF o.kind = "ok" THEN SuccessResponse(req.id, o.result)
    ELSE IF o.kind = "rpc" THEN ErrorResponse(req.id, o.code, o.message, o.data)
    ELSE ErrorResponse(req.id, InternalError, o.message, "nil")

SrvInit ==
    /\ spc = "scan"
    /\ sctxDone = FALSE
    /\ nread = 0
    /\ slast = NoLine
    /\ sdisp = NoRequest
    /\ sout = <<>>
    /\ sret = "none"

\* Server.Start, lines 111-133: one turn of the loop on the line Scan returned.
ServerLine(l, o) ==
    /\ spc = "scan"
    /\ nread < MaxLines
    /\ nread' = nread + 1
    /\ slast' = l
    /\ IF sctxDone
       THEN /\ spc' = "returned"
            /\ sret' = "ctx.Err()"
            /\ sdisp' = NoRequest
            /\ o = NoOutcome
            /\ UNCHANGED sout
       ELSE /\ spc' = "scan"
            /\ sret' = sret
            /\ IF l.form = "empty"
               THEN /\ o = NoOutcome
                    /\ sdisp' = NoRequest
                    /\ UNCHANGED sout
               ELSE IF ~ParseRequest(l).ok
               THEN /\ o = NoOutcome
                    /\ sdisp' = NoRequest
                    /\ sout' = Append(sout, ErrorResponse(NullId, ParseError, "err", "nil"))
               ELSE /\ o \in HandlerOutcomes(ParseRequest(l).req.method)
                    /\ sdisp' = ParseRequest(l).req
                    /\ sout' = Append(sout, HandleRequest(ParseRequest(l).req, o))
    /\ UNCHANGED sctxDone
    /\ UNCHANGED nonSrvVars

\* Server.Start, line 135: Scan returns false at the end of the input.
ServerEOF ==
    /\ spc = "scan"
    /\ spc' = "returned"
    /\ sret' = "scanner.Err()"
    /\ UNCHANGED <<sctxDone, nread, slast, sdisp, sout>>
    /\ UNCHANGED nonSrvVars

\* The context of Server.Start is cancelled.
ServerCtxCancel ==
    /\ ~sctxDone
    /\ spc = "scan"
    /\ sctxDone' = TRUE
    /\ UNCHANGED <<spc, nread, slast, sdisp, sout, sret>>
    /\ UNCHANGED nonSrvVars

Outcomes ==
    {NoOutcome} \cup UNION {HandlerOutcomes(m) : m \in DispatchTable}

\* ---- handleRequest on its own: any request, any handler return ----
\* A handler is a HandlerFunc: besides what the handlers of the table return
\* today, it may return an error that is no *ErrorObject.
HandlerReturns(method) ==
    IF method \in DispatchTable
    THEN HandlerOutcomes(method) \cup {Failed("generic", 0, "err", "nil")}
    ELSE {NoOutcome}

HandleInit ==
    /\ hreq \in [method : DispatchTable \cup {"bogus", ""}, id : LineIds, seen : {TRUE}]
    /\ \/ /\ hfailed \in HandlerSteps(hreq.method)
          /\ hout = HandlerOn(hreq.method, hfailed)
       \/ /\ hfailed = "other"
          /\ hout \in HandlerReturns(hreq.method) \ HandlerOutcomes(hreq.method)
    /\ hresp = NoResponse

\* The state in which handleRequest is not under way.
HandleAtRest ==
    /\ hreq = NoRequest
    /\ hfailed = "none"
    /\ hout = NoOutcome
    /\ hresp = NoResponse

\* handleRequest(ctx, req) returns.
HandleCall ==
    /\ hresp = NoResponse
    /\ hresp' = HandleRequest(hreq, hout)
    /\ UNCHANGED <<hreq, hfailed, hout>>
    /\ UNCHANGED nonHandleVars

\* ---- Server.Start, statement by statement ----
\* The lines stdin may carry.
LoopLines ==
    {l \in Lines : l.method \in {"", "read_file", "bogus"} /\ (l.form = "object" => l.id = 7)}

\* No response is waiting to be encoded.
NoResp == [line |-> 0, response |-> NoResponse]

\* Mutation: the handler runs in a goroutine of its own and the loop goes on.
SpawnHandler(running, k) == [pc |-> "scan", handling |-> running \cup {k}]

\* resp := s.handleRequest(ctx, req): a plain call; the loop stands at this
\* statement until handleRequest has returned.
CallHandler(running, k) == [pc |-> "handle", handling |-> running \cup {k}]

LoopInit ==
    /\ stdinLines \in UNION {[1..n -> LoopLines] : n \in 0..MaxLines}
    /\ scanned = 0
    /\ loopPc = "scan"
    /\ loopCtxDone = FALSE
    /\ handling = {}
    /\ resp = NoResp
    /\ stdout = <<>>

\* The state in which Start is not under way.
LoopAtRest ==
    /\ stdinLines = <<>>
    /\ scanned = 0
    /\ loopPc = "scan"
    /\ loopCtxDone = FALSE
    /\ handling = {}
    /\ resp = NoResp
    /\ stdout = <<>>

\* Start, lines 111-129: scanner.Scan() returns a line; the context check,
\* the empty-line check, ParseRequest, and the call of handleRequest.
LoopScan ==
    /\ loopPc = "scan"
    /\ scanned < Len(stdinLines)
    /\ scanned' = scanned + 1
    /\ LET l == stdinLines[scanned'] IN
       IF loopCtxDone
       THEN /\ loopPc' = "returned"
            /\ UNCHANGED <<handling, resp>>
       ELSE IF l.form = "empty"
       THEN UNCHANGED <<loopPc, handling, resp>>
       ELSE IF ~ParseRequest(l).ok
       THEN /\ loopPc' = "encode"
            /\ resp' = [line |-> scanned',
                        response |-> ErrorResponse(NullId, ParseError, "err", "nil")]
            /\ UNCHANGED handling
       ELSE /\ loopPc' = CallHandler(handling, scanned').pc
            /\ handling' = CallHandler(handling, scanned').handling
            /\ UNCHANGED resp
    /\ UNCHANGED <<stdinLines, loopCtxDone, stdout>>
    /\ UNCHANGED nonLoopVars

\* handleRequest, lines 138-153, returns its response for the line.
LoopHandlerReturn(o) ==
    /\ \E k \in handling :
          LET req == ParseRequest(stdinLines[k]).req IN
          /\ o \in HandlerOutcomes(req.method)
          /\ handling' = handling \ {k}
          /\ resp' = [line |-> k, response |-> HandleRequest(req, o)]
    /\ loopPc' = "encode"
    /\ UNCHANGED <<stdinLines, scanned, loopCtxDone, stdout>>
    /\ UNCHANGED nonLoopVars

\* Start, lines 125 and 130-132: encoder.Encode writes the response.
LoopEncode ==
    /\ loopPc = "encode"
    /\ stdout' = Append(stdout, resp)
    /\ resp' = NoResp
    /\ loopPc' = "scan"
    /\ UNCHANGED <<stdinLines, scanned, loopCtxDone, handling>>
    /\ UNCHANGED nonLoopVars

\* Start, line 135: Scan returns false at the end of stdin.
LoopEOF ==
    /\ loopPc = "scan"
    /\ scanned = Len(stdinLines)
    /\ loopPc' = "returned"
    /\ UNCHANGED <<stdinLines, scanned, loopCtxDone, handling, resp, stdout>>
    /\ UNCHANGED nonLoopVars

\* The context of Start is cancelled.
LoopCtxCancel ==
    /\ ~loopCtxDone
    /\ loopPc # "returned"
    /\ loopCtxDone' = TRUE
    /\ UNCHANGED <<stdinLines, scanned, loopPc, handling, resp, stdout>>
    /\ UNCHANGED nonLoopVars

(***************************************************************************)
(* mcp.ApplyUnifiedDiff and Server.handleApplyDiff                         *)
(***************************************************************************)
\* Bounds: characters of a drawn text, lines of a drawn diff, lines of a
\* file a diff is generated for, context lines around a generated change.
MaxTextLen == 2

MaxDiffLen == 2

MaxFileLines == 3

DiffContext == 1

ParseFailure == -32002

Newline == "\n"

\* Characters of a line.
LineChars == {"a", "b"}

\* A text is the sequence of its characters.
Texts == UNION {[1..n -> LineChars \cup {Newline}] : n \in 0..MaxTextLen}

Min(a, b) == IF a <= b THEN a ELSE b

Max(a, b) == IF a >= b THEN a ELSE b

RECURSIVE Split(_)
\* strings.Split(s, "\n")
Split(s) ==
    IF \A k \in 1..Len(s) : s[k] # Newline
    THEN <<s>>
    ELSE LET k == CHOOSE k \in 1..Len(s) :
                     s[k] = Newline /\ \A j \in 1..(k - 1) : s[j] # Newline
         IN  <<SubSeq(s, 1, k - 1)>> \o Split(SubSeq(s, k + 1, Len(s)))

RECURSIVE JoinTerminated(_)
\* Mutation: every line is written with a newline after it.
JoinTerminated(ls) ==
    IF ls = <<>> THEN <<>> ELSE Head(ls) \o <<Newline>> \o JoinTerminated(Tail(ls))

RECURSIVE Join(_)
\* strings.Join(lines, "\n")
Join(ls) ==
    IF ls = <<>> THEN <<>>
    ELSE IF Len(ls) = 1 THEN ls[1]
    ELSE Head(ls) \o <<Newline>> \o Join(Tail(ls))

\* One line of the diff, as parseHunks tells lines apart:
\*   "hunk"    starts with "@@ " and matches hunkHeaderRegex,
\*   "badhunk" starts with "@@ " and does not match it,
\*   " ", "-", "+"  the first byte of any other non-empty line, with
\*             content the rest of the line (line[1:]),
\*   "empty"   a line of length 0,
\*   "other"   a non-empty line with any other first byte.
DiffLine(kind, oldStart, oldCount, newStart, newCount, content) ==
    [kind |-> kind, oldStart |-> oldStart, oldCount |-> oldCount,
     newStart |-> newStart, newCount |-> newCount, content |-> content]

HunkLine(oldStart, oldCount, newStart, newCount) ==
    DiffLine("hunk", oldStart, oldCount, newStart, newCount, <<>>)

BadHunkLine == DiffLine("badhunk", 0, 0, 0, 0, <<>>)

ChangeLine(kind, content) == DiffLine(kind, 0, 0, 0, 0, content)

EmptyLine == DiffLine("empty", 0, 0, 0, 0, <<>>)

\* e.g. "\ No newline at end of file", "diff --git a/f b/f", "index 1..2"
OtherLine == DiffLine("other", 0, 0, 0, 0, <<>>)

\* currentHunk == nil
NoHunk ==
    [set |-> FALSE, oldStart |-> 0, oldCount |-> 0, newStart |-> 0, newCount |-> 0,
     changes |-> <<>>]

\* &hunk{} filled from the matches of the header
NewHunk(line) ==
    [set |-> TRUE, oldStart |-> line.oldStart, oldCount |-> line.oldCount,
     newStart |-> line.newStart, newCount |-> line.newCount, changes |-> <<>>]

\* hunks = append(hunks, *currentHunk) when currentHunk != nil
Flush(hunks, cur) == IF cur.set THEN Append(hunks, cur) ELSE hunks

RECURSIVE ParseLoop(_, _, _)
\* parseHunks, the loop over diffLines and the append after it.  A header
\* that does not match leaves currentHunk as it was (the continue).
ParseLoop(dl, hunks, cur) ==
    IF dl = <<>> THEN Flush(hunks, cur)
    ELSE LET line == Head(dl) IN
         IF line.kind = "hunk"
         THEN ParseLoop(Tail(dl), Flush(hunks, cur), NewHunk(line))
         ELSE IF line.kind = "badhunk"
         THEN ParseLoop(Tail(dl), Flush(hunks, cur), cur)
         ELSE IF cur.set /\ line.kind \in {" ", "-", "+"}
         THEN ParseLoop(Tail(dl), hunks,
                        [cur EXCEPT !.changes =
                            Append(@, [kind |-> line.kind, content |-> line.content])])
         ELSE ParseLoop(Tail(dl), hunks, cur)

\* parseHunks; it has no failing return
parseHunks(diffLines) == ParseLoop(diffLines, <<>>, NoHunk)

RECURSIVE PatchContext(_, _, _, _)
\* Mutation: a context line writes the diff's text of the line.
PatchContext(lines, changes, lineIdx, result) ==
    IF changes = <<>> THEN [result |-> result, lineIdx |-> lineIdx]
    ELSE LET change == Head(changes) IN
         IF change.kind = " "
         THEN IF lineIdx < Len(lines)
              THEN PatchContext(lines, Tail(changes), lineIdx + 1,
                                Append(result, change.content))
              ELSE PatchContext(lines, Tail(changes), lineIdx, result)
         ELSE IF change.kind = "-"
         THEN PatchContext(lines, Tail(changes), lineIdx + 1, result)
         ELSE PatchContext(lines, Tail(changes), lineIdx,
                           Append(result, change.content))

RECURSIVE ApplyChanges(_, _, _, _)
\* applyHunk, lines 111-123: the loop over h.changes; lineIdx counts from 0
ApplyChanges(lines, changes, lineIdx, result) ==
    IF changes = <<>> THEN [result |-> result, lineIdx |-> lineIdx]
    ELSE LET change == Head(changes) IN
         IF change.kind = " "
         THEN IF lineIdx < Len(lines)
              THEN ApplyChanges(lines, Tail(changes), lineIdx + 1,
                                Append(result, lines[lineIdx + 1]))
              ELSE ApplyChanges(lines, Tail(changes), lineIdx, result)
         ELSE IF change.kind = "-"
         THEN ApplyChanges(lines, Tail(changes), lineIdx + 1, result)
         ELSE ApplyChanges(lines, Tail(changes), lineIdx,
                           Append(result, change.content))

\* lines[from:] of a slice, empty when from is at or past its end
LinesFrom(lines, from) ==
    IF from >= Len(lines) THEN <<>> ELSE SubSeq(lines, from + 1, Len(lines))

\* Mutation: the hunk starts one line further down.
ApplyHunkOneLater(lines, h) ==
    LET pre == Min(Max(h.oldStart, 0), Len(lines))
        r   == ApplyChanges(lines, h.changes, pre, SubSeq(lines, 1, pre))
    IN  r.result \o LinesFrom(lines, r.lineIdx)

\* applyHunk: copy up to oldStart-1, run the changes, copy the rest; it has
\* no failing return
applyHunk(lines, h) ==
    LET pre == Min(Max(h.oldStart - 1, 0), Len(lines))
        r   == ApplyChanges(lines, h.changes, pre, SubSeq(lines, 1, pre))
    IN  r.result \o LinesFrom(lines, r.lineIdx)

RECURSIVE ApplyFirstFirst(_, _)
\* Mutation: the hunks are applied in document order.
ApplyFirstFirst(lines, hunks) ==
    IF hunks = <<>> THEN lines
    ELSE ApplyFirstFirst(applyHunk(lines, Head(hunks)), Tail(hunks))

RECURSIVE ApplyLastFirst(_, _)
\* ApplyUnifiedDiff, lines 17-22: for i := len(hunks) - 1; i >= 0; i--
ApplyLastFirst(lines, hunks) ==
    IF hunks = <<>> THEN lines
    ELSE ApplyLastFirst(applyHunk(lines, hunks[Len(hunks)]),
                        SubSeq(hunks, 1, Len(hunks) - 1))

\* ApplyUnifiedDiff(original, diff), on the lines of the diff.  Neither
\* parseHunks nor applyHunk returns an error, so err is always nil.
ApplyUnifiedDiff(original, diffLines) ==
    [text |-> Join(ApplyLastFirst(Split(original), parseHunks(diffLines))),
     err  |-> FALSE]

\* ---- the diff generator (reporter.generateDiff) ----
\* Length of the longest common prefix of two sequences.
CommonPrefix(P, Q) ==
    CHOOSE k \in 0..Min(Len(P), Len(Q)) :
        /\ \A j \in 1..k : P[j] = Q[j]
        /\ k < Min(Len(P), Len(Q)) => P[k + 1] # Q[k + 1]

\* Length of the longest common suffix that stays clear of the first pre.
CommonSuffix(P, Q, pre) ==
    CHOOSE k \in 0..(Min(Len(P), Len(Q)) - pre) :
        /\ \A j \in 0..(k - 1) : P[Len(P) - j] = Q[Len(Q) - j]
        /\ k < Min(Len(P), Len(Q)) - pre => P[Len(P) - k] # Q[Len(Q) - k]

\* The diff lines of some lines of a text under one prefix byte.
Emit(kind, ls) == [k \in 1..Len(ls) |-> ChangeLine(kind, ls[k])]

\* "--- a/file" and "+++ b/file": first byte '-' or '+', then the rest
FileHeader == <<ChangeLine("-", <<"-", "-", " ", "a">>),
                ChangeLine("+", <<"+", "+", " ", "b">>)>>

\* The unified diff from text A to text B, in the subset the patch engine
\* reads: the file header and one hunk around the changed region, with up to
\* DiffContext lines of context on each side.  The lines of a text are what
\* strings.Split(text, "\n") gives, as for the patch engine.
GenerateDiff(A, B) ==
    LET P    == Split(A)
        Q    == Split(B)
        pre  == CommonPrefix(P, Q)
        suf  == CommonSuffix(P, Q, pre)
        cb   == Min(pre, DiffContext)
        ca   == Min(suf, DiffContext)
        oldN == (Len(P) - pre - suf) + cb + ca
        newN == (Len(Q) - pre - suf) + cb + ca
        from == pre - cb + 1
    IN  IF P = Q THEN <<EmptyLine>>
        ELSE FileHeader
             \o <<HunkLine(from, oldN, from, newN)>>
             \o Emit(" ", SubSeq(P, from, pre))
             \o Emit("-", SubSeq(P, pre + 1, Len(P) - suf))
             \o Emit("+", SubSeq(Q, pre + 1, Len(Q) - suf))
             \o Emit(" ", SubSeq(P, Len(P) - suf + 1, Len(P) - suf + ca))
             \o <<EmptyLine>>

\* ---- inputs ----
\* Lines a drawn diff is made of.
DiffLines ==
    {HunkLine(k, 1, k, 1) : k \in 0..(MaxTextLen + 1)}
    \cup {BadHunkLine, EmptyLine, OtherLine, ChangeLine("-", <<"a">>)}
    \cup {ChangeLine(kind, <<c>>) : kind \in {" ", "+"}, c \in LineChars}

\* strings.Split gives at least one line
Diffs == UNION {[1..n -> DiffLines] : n \in 1..MaxDiffLen}

\* The lines of a file: a text whose last line is empty ends with a newline.
LineTexts == {<<>>} \cup {<<c>> : c \in LineChars}

FileLines == UNION {[1..n -> LineTexts] : n \in 1..MaxFileLines}

\* The lines of a text after one line-based edit: one line added, one line
\* removed, or one line modified.
Edits(ls) ==
    ({SubSeq(ls, 1, at - 1) \o <<l>> \o SubSeq(ls, at, Len(ls)) :
          at \in 1..(Len(ls) + 1), l \in LineTexts}
     \cup {SubSeq(ls, 1, at - 1) \o SubSeq(ls, at + 1, Len(ls)) : at \in 1..Len(ls)}
     \cup {[ls EXCEPT ![at] = l] : at \in 1..Len(ls), l \in LineTexts})
    \ {ls, <<>>}

\* No text: the diff was not generated.
NoText == <<"?">>

NoResult == [text |-> NoText, err |-> FALSE]

\* The change lines of a drawn hunk, fewer than MaxDiffLen of them.
HunkChanges ==
    UNION {[1..n -> {ChangeLine(" ", <<"a">>), ChangeLine("-", <<"a">>),
                     ChangeLine("+", <<"b">>)}] : n \in 1..(MaxDiffLen - 1)}

\* The request and the file it names, before the handler runs: any text
\* with any diff, a text with the diff generated towards an edit of it, a
\* file of MaxFileLines terminated lines with a diff of two hunks, or a file
\* with a diff that carries a file header before and after its first hunk.
DiffDrawn ==
    \/ /\ dorig \in Texts
       /\ ddiff \in Diffs
       /\ dexpect = NoText
    \/ \E ls \in FileLines : \E ms \in Edits(ls) :
          /\ dorig = Join(ls)
          /\ dexpect = Join(ms)
          /\ ddiff = GenerateDiff(dorig, dexpect)
    \/ \E ls \in [1..MaxFileLines -> LineTexts \ {<<>>}] :
       \E c1 \in HunkChanges, c2 \in HunkChanges :
       \E s1 \in 1..MaxFileLines, s2 \in 1..MaxFileLines :
          /\ s1 <= s2
          /\ dorig = Join(Append(ls, <<>>))
          /\ dexpect = NoText
          /\ ddiff = <<HunkLine(s1, 1, s1, 1)>> \o c1 \o <<HunkLine(s2, 1, s2, 1)>> \o c2
    \/ \E ls \in [1..MaxFileLines -> LineTexts \ {<<>>}] :
       \E c1 \in HunkChanges, more \in BOOLEAN :
          /\ dorig = Join(ls)
          /\ dexpect = NoText
          /\ ddiff = FileHeader \o <<HunkLine(1, 1, 1, 1)>> \o c1 \o FileHeader
                     \o (IF more THEN <<HunkLine(MaxFileLines, 1, MaxFileLines, 1)>> \o c1
                         ELSE <<>>)

DiffInit ==
    /\ DiffDrawn
    /\ dfile = dorig
    /\ dpc = "request"
    /\ dcalled = FALSE
    /\ dres = NoResult
    /\ dresp = 0

\* The state in which no apply_diff request is under way.
DiffAtRest ==
    /\ dorig = <<>>
    /\ ddiff = <<EmptyLine>>
    /\ dexpect = NoText
    /\ dfile = <<>>
    /\ dpc = "request"
    /\ dcalled = FALSE
    /\ dres = NoResult
    /\ dresp = 0

\* os.WriteFile(fullPath, data, 0644) opens the file with O_TRUNC and then
\* writes.  Its outcome is the number of bytes that reached the file: all of
\* data on success, fewer when the write fails after the truncating open,
\* and OpenFailed when the open fails and the file is not touched.
OpenFailed == -1

WriteOutcomes(data) == OpenFailed..Len(data)

\* handleApplyDiff, lines 543-573.
HandleApplyDiff(paramsOK, readOK) ==
    /\ dpc = "request"
    /\ dpc' = "responded"
    /\ IF ~paramsOK
       THEN /\ dresp' = InvalidParams
            /\ UNCHANGED <<dfile, dcalled, dres>>
       ELSE IF ~readOK
       THEN /\ dresp' = FileNotFound
            /\ UNCHANGED <<dfile, dcalled, dres>>
       ELSE /\ dcalled' = TRUE
            /\ dres' = ApplyUnifiedDiff(dfile, ddiff)
            /\ IF dres'.err
               THEN /\ dresp' = ParseFailure
                    /\ dfile' = dfile
               ELSE \E written \in WriteOutcomes(dres'.text) :
                       IF written = OpenFailed
                       THEN /\ dfile' = dfile
                            /\ dresp' = InternalError
                       ELSE /\ dfile' = SubSeq(dres'.text, 1, written)
                            /\ dresp' = IF written = Len(dres'.text)
                                         THEN 0 ELSE InternalError
    /\ UNCHANGED <<dorig, ddiff, dexpect>>
    /\ UNCHANGED nonDiffVars

(***************************************************************************)
(* sidecar.getOrCreateSidecarPath                                          *)
(***************************************************************************)
\* Bound: calls of getOrCreateSidecarPath each thread makes, one after another.
MaxGets == 2

\* The (path, error) pair of a call: err is TRUE for a non-nil error.
PathPair(path, err) == [path |-> path, err |-> err]

\* extractEmbeddedSidecar: the data directory's sidecar, or an error
extractEmbeddedSidecar(ok) ==
    IF ok THEN PathPair("sidecarDir", FALSE) ELSE PathPair("", TRUE)

\* findLocalSidecar: the first candidate that holds the module, or an error
findLocalSidecar(ok) ==
    IF ok THEN PathPair("absPath", FALSE) ELSE PathPair("", TRUE)

\* The function handed to embeddedOnce.Do.
LookupBody(embedded, ok) ==
    IF embedded THEN extractEmbeddedSidecar(ok) ELSE findLocalSidecar(ok)

OnceInit ==
    /\ embeddedFS \in BOOLEAN
    /\ embeddedOnce = [done |-> FALSE, mu |-> 0]
    /\ extractedPath = ""
    /\ extractErr = FALSE
    /\ assetOK \in BOOLEAN
    /\ gpc = [t \in Threads |-> "idle"]
    /\ gcalls = [t \in Threads |-> 0]
    /\ bodyRuns = 0
    /\ gret = {}

\* The component under the specifications of the other components.
OnceAtRest == OnceInit /\ embeddedFS = FALSE /\ assetOK = TRUE

\* embeddedOnce.Do, the fast path: the done flag is read.
GetEnter(t) ==
    /\ gpc[t] = "idle"
    /\ gcalls[t] < MaxGets
    /\ gcalls' = [gcalls EXCEPT ![t] = gcalls[t] + 1]
    /\ gpc' = [gpc EXCEPT ![t] = IF OnceMustRun(embeddedOnce.done) THEN "lock" ELSE "return"]
    /\ UNCHANGED <<embeddedFS, embeddedOnce, extractedPath, extractErr, assetOK,
                   bodyRuns, gret>>
    /\ UNCHANGED nonOnceVars

\* sync.Once.doSlow: the mutex is taken and the done flag read again.
GetLock(t) ==
    /\ gpc[t] = "lock"
    /\ embeddedOnce.mu = 0
    /\ embeddedOnce' = [embeddedOnce EXCEPT !.mu = t]
    /\ gpc' = [gpc EXCEPT ![t] = IF OnceMustRun(embeddedOnce.done) THEN "body" ELSE "unlock"]
    /\ UNCHANGED <<embeddedFS, extractedPath, extractErr, assetOK, gcalls, bodyRuns,
                   gret>>
    /\ UNCHANGED nonOnceVars

\* The function of lines 379-385 runs: both package variables are assigned;
\* the deferred done.Store(1) follows.
GetBody(t) ==
    /\ gpc[t] = "body"
    /\ extractedPath' = LookupBody(embeddedFS, assetOK).path
    /\ extractErr' = LookupBody(embeddedFS, assetOK).err
    /\ bodyRuns' = bodyRuns + 1
    /\ embeddedOnce' = [embeddedOnce EXCEPT !.done = TRUE]
    /\ gpc' = [gpc EXCEPT ![t] = "unlock"]
    /\ UNCHANGED <<embeddedFS, assetOK, gcalls, gret>>
    /\ UNCHANGED nonOnceVars

\* sync.Once.doSlow: the deferred Unlock.
GetUnlock(t) ==
    /\ gpc[t] = "unlock"
    /\ embeddedOnce' = [embeddedOnce EXCEPT !.mu = 0]
    /\ gpc' = [gpc EXCEPT ![t] = "return"]
    /\ UNCHANGED <<embeddedFS, extractedPath, extractErr, assetOK, gcalls, bodyRuns,
                   gret>>
    /\ UNCHANGED nonOnceVars

\* Line 386: return extractedPath, extractErr.
GetReturn(t) ==
    /\ gpc[t] = "return"
    /\ gret' = gret \cup {PathPair(extractedPath, extractErr)}
    /\ gpc' = [gpc EXCEPT ![t] = "idle"]
    /\ UNCHANGED <<embeddedFS, embeddedOnce, extractedPath, extractErr, assetOK,
                   gcalls, bodyRuns>>
    /\ UNCHANGED nonOnceVars

\* The sidecar files appear or disappear on disk.
AssetChange ==
    /\ assetOK' = ~assetOK
    /\ UNCHANGED <<embeddedFS, embeddedOnce, extractedPath, extractErr, gpc, gcalls,
                   bodyRuns, gret>>
    /\ UNCHANGED nonOnceVars

(***************************************************************************)
(* lsp.BaseClient.Call and Notify: the writes to c.stdin                   *)
(***************************************************************************)
\* One c.stdin.Write: the bytes of one part of one thread's frame.
Written(t, part) == [by |-> t, part |-> part]

WriteInit ==
    /\ wrkind \in [Threads -> {"Call", "Notify"}]
    /\ wrpc = [t \in Threads |-> "idle"]
    /\ stdinBytes = <<>>
    /\ pipeOpen = TRUE

\* The component under the specifications of the other components.
WriteAtRest == WriteInit /\ wrkind = [t \in Threads |-> "Call"]

\* Call, lines 446-463, and Notify, lines 552-561: the message is marshalled
\* (Call also takes its id and registers its channel); nothing is written yet.
WriteBegin(t) ==
    /\ wrpc[t] = "idle"
    /\ wrpc' = [wrpc EXCEPT ![t] = "header"]
    /\ UNCHANGED <<wrkind, stdinBytes, pipeOpen>>
    /\ UNCHANGED nonWriteVars

\* Call, lines 465-468, and Notify, lines 563-566: c.stdin.Write(header).
\* No lock is held.
WriteHeader(t) ==
    /\ wrpc[t] = "header"
    /\ IF pipeOpen
       THEN /\ stdinBytes' = Append(stdinBytes, Written(t, "header"))
            /\ wrpc' = [wrpc EXCEPT ![t] = "body"]
       ELSE /\ stdinBytes' = stdinBytes
            /\ wrpc' = [wrpc EXCEPT ![t] = "failed"]
    /\ UNCHANGED <<wrkind, pipeOpen>>
    /\ UNCHANGED nonWriteVars

\* Call, lines 469-471, and Notify, lines 567-569: c.stdin.Write(body).
WriteBody(t) ==
    /\ wrpc[t] = "body"
    /\ IF pipeOpen
       THEN /\ stdinBytes' = Append(stdinBytes, Written(t, "body"))
            /\ wrpc' = [wrpc EXCEPT ![t] = "written"]
       ELSE /\ stdinBytes' = stdinBytes
            /\ wrpc' = [wrpc EXCEPT ![t] = "failed"]
    /\ UNCHANGED <<wrkind, pipeOpen>>
    /\ UNCHANGED nonWriteVars

\* The child exits: the pipe has no reader left.
PipeBreak ==
    /\ pipeOpen
    /\ pipeOpen' = FALSE
    /\ UNCHANGED <<wrkind, wrpc, stdinBytes>>
    /\ UNCHANGED nonWriteVars

(***************************************************************************)
(* lsp.BaseClient.Initialize, IsInitialized and Shutdown                   *)
(***************************************************************************)
\* The responses a server gives to a request: a result, a result that is no
\* InitializeResult object, an error member, a body that is no JSON.
ReplyKinds == {"result", "badresult", "error", "badjson"}

\* The two callers of Call in this section.
Callers == {"Initialize", "Shutdown"}

\* Call, lines 446-453: the request carries the next request id; every
\* message of this section is written by Call, so the count gives the id.
CallMessage(method, sent) == [method |-> method, id |-> Len(sent) + 1]

\* Call, lines 476-493: the error Call derives from the delivered body.
CallFails(kind) == kind \in {"error", "badjson"}

\* json.Unmarshal(result, &initResult), lines 518-521
InitResultParses(kind) == kind = "result"

\* IsInitialized, lines 532-534
IsInitialized == initialized

InitInit ==
    /\ ipc = "idle"
    /\ initialized = FALSE
    /\ iret = "none"
    /\ isent = <<>>
    /\ inbox = [c \in Callers |-> "none"]
    /\ ictxDone = FALSE
    /\ sdpc = "idle"
    /\ serverUp = TRUE

InitAtRest == InitInit

\* Initialize, lines 498-513: c.Call(ctx, "initialize", params) writes the
\* request, or fails to.
InitializeBegin ==
    /\ ipc = "idle"
    /\ IF serverUp
       THEN /\ isent' = Append(isent, CallMessage("initialize", isent))
            /\ ipc' = "initialize"
            /\ iret' = iret
       ELSE /\ isent' = isent
            /\ ipc' = "returned"
            /\ iret' = "initialize failed"
    /\ UNCHANGED <<initialized, inbox, ictxDone, sdpc, serverUp>>
    /\ UNCHANGED nonInitVars

\* Initialize, lines 513-527: the first Call returns; on a result that
\* parses, c.Call(ctx, "initialized", {}) writes the second request.
InitializeAnswered ==
    /\ ipc = "initialize"
    /\ inbox["Initialize"] # "none"
    /\ inbox' = [inbox EXCEPT !["Initialize"] = "none"]
    /\ IF CallFails(inbox["Initialize"])
       THEN /\ ipc' = "returned" /\ iret' = "initialize failed" /\ isent' = isent
       ELSE IF ~InitResultParses(inbox["Initialize"])
       THEN /\ ipc' = "returned" /\ iret' = "parse failed" /\ isent' = isent
       ELSE IF ~serverUp
       THEN /\ ipc' = "returned" /\ iret' = "initialized failed" /\ isent' = isent
       ELSE /\ ipc' = "initialized"
            /\ iret' = iret
            /\ isent' = Append(isent, CallMessage("initialized", isent))
    /\ UNCHANGED <<initialized, ictxDone, sdpc, serverUp>>
    /\ UNCHANGED nonInitVars

\* Initialize, lines 523-529: the second Call returns; c.initialized = true
\* after a response without an error.
InitializedAnswered ==
    /\ ipc = "initialized"
    /\ inbox["Initialize"] # "none"
    /\ inbox' = [inbox EXCEPT !["Initialize"] = "none"]
    /\ ipc' = "returned"
    /\ IF CallFails(inbox["Initialize"])
       THEN /\ iret' = "initialized failed" /\ initialized' = initialized
       ELSE /\ iret' = "nil" /\ initialized' = TRUE
    /\ UNCHANGED <<isent, ictxDone, sdpc, serverUp>>
    /\ UNCHANGED nonInitVars

\* Call, lines 473-475, inside Initialize: the select takes ctx.Done().
InitializeCtxDone ==
    /\ ipc \in {"initialize", "initialized"}
    /\ ictxDone
    /\ ipc' = "returned"
    /\ iret' = IF ipc = "initialize" THEN "initialize failed" ELSE "initialized failed"
    /\ UNCHANGED <<initialized, isent, inbox, ictxDone, sdpc, serverUp>>
    /\ UNCHANGED nonInitVars

\* The caller of Initialize cancels its context.
InitCtxCancel ==
    /\ ~ictxDone
    /\ ictxDone' = TRUE
    /\ UNCHANGED <<ipc, initialized, iret, isent, inbox, sdpc, serverUp>>
    /\ UNCHANGED nonInitVars

\* Shutdown, lines 537-540: c.Call(context.Background(), "shutdown", nil)
\* writes the request; when the write fails the Call returns at once and
\* lines 542-546 close stdin and kill and reap the child.
ShutdownBegin ==
    /\ sdpc = "idle"
    /\ IF serverUp
       THEN /\ isent' = Append(isent, CallMessage("shutdown", isent))
            /\ sdpc' = "shutdown"
       ELSE /\ isent' = isent
            /\ sdpc' = "returned"
    /\ UNCHANGED <<ipc, initialized, iret, inbox, ictxDone, serverUp>>
    /\ UNCHANGED nonInitVars

\* Shutdown, lines 540-548: the Call returns; stdin is closed, the child is
\* killed and reaped.  No statement assigns c.initialized.
ShutdownAnswered ==
    /\ sdpc = "shutdown"
    /\ inbox["Shutdown"] # "none"
    /\ inbox' = [inbox EXCEPT !["Shutdown"] = "none"]
    /\ sdpc' = "returned"
    /\ serverUp' = FALSE
    /\ UNCHANGED <<ipc, initialized, iret, isent, ictxDone>>
    /\ UNCHANGED nonInitVars

\* The Call a caller is inside of, "" when it is inside none.
InFlight(c) ==
    IF c = "Initialize" THEN (IF ipc \in {"initialize", "initialized"} THEN ipc ELSE "")
    ELSE (IF sdpc = "shutdown" THEN "shutdown" ELSE "")

\* The server answers the request a caller waits for; readResponses hands
\* the body to the channel of that Call.
LspReply(c, kind) ==
    /\ serverUp
    /\ InFlight(c) # ""
    /\ inbox[c] = "none"
    /\ inbox' = [inbox EXCEPT ![c] = kind]
    /\ UNCHANGED <<ipc, initialized, iret, isent, ictxDone, sdpc, serverUp>>
    /\ UNCHANGED nonInitVars

\* The language server exits on its own.
LspExit ==
    /\ serverUp
    /\ serverUp' = FALSE
    /\ UNCHANGED <<ipc, initialized, iret, isent, inbox, ictxDone, sdpc>>
    /\ UNCHANGED nonInitVars

(***************************************************************************)
(* sidecar.MCPManager: the supervised operations                           *)
(***************************************************************************)
Operations == {"Analyze", "Deduplicate", "Idiomatize", "ApplyPattern", "Check"}

\* How Start ends: the statement that fails, or "ok" (lines 53-132).
StartOutcomes == {"python", "path", "pipe", "stderr", "start", "ok"}

\* What WaitForResult hands to the operation: the timeout error, or a result
\* with an error string, without a data object, or with one.
WaitOutcomes == {"timeout", "error", "malformed", "data"}

\* The return of the operation after its WaitForResult (lines 184-231 and
\* the same statements of the other four).
OperationReturn(result) ==
    CASE result = "timeout"   -> "timeout"
      [] result = "error"     -> "failed"
      [] result = "malformed" -> "invalid"
      [] OTHER                -> "ok"

\* Mutation: Stop is called on the paths that carry a result only.
StopOnResult(result) == result # "timeout"

\* `defer m.Stop()` right after a successful Start: Stop runs on every return.
StopDeferred(result) == TRUE

OpInit ==
    /\ opname \in Operations
    /\ opc = "idle"
    /\ opret = "none"
    /\ oprocess = FALSE
    /\ ochild = "none"
    /\ hostEnd = FALSE
    /\ srvLoop = "none"
    /\ stopCalls = 0
    /\ served = 0

OpAtRest == OpInit /\ opname = "Analyze"

\* The operation calls m.Start (lines 179-181).  A failing Start closes the
\* pipe ends it opened and assigns no process; a successful one hands
\* clientOut to the child as its stdout, keeps it open in the host as
\* m.cmd.Stdout, sets m.process and launches the server on serverIn.
OpStart(outcome) ==
    /\ opc = "idle"
    /\ IF outcome = "ok"
       THEN /\ oprocess' = TRUE
            /\ ochild' = "running"
            /\ hostEnd' = TRUE
            /\ srvLoop' = "reading"
            /\ opc' = "wait"
            /\ opret' = opret
       ELSE /\ opc' = "returned"
            /\ opret' = "start failed"
            /\ UNCHANGED <<oprocess, ochild, hostEnd, srvLoop>>
    /\ UNCHANGED <<opname, stopCalls, served>>
    /\ UNCHANGED nonOpVars

\* WaitForResult returns and the operation settles its return value; the
\* deferred Stop comes next.
OpWait(result) ==
    /\ opc = "wait"
    /\ opret' = OperationReturn(result)
    /\ opc' = IF StopDeferred(result) THEN "stop" ELSE "returned"
    /\ UNCHANGED <<opname, oprocess, ochild, hostEnd, srvLoop, stopCalls, served>>
    /\ UNCHANGED nonOpVars

\* Stop, lines 156-161: the handle is set, so the child is signalled.
OpStopSignal ==
    /\ opc = "stop"
    /\ stopCalls' = stopCalls + 1
    /\ opc' = "stopwait"
    /\ UNCHANGED <<opname, opret, oprocess, ochild, hostEnd, srvLoop, served>>
    /\ UNCHANGED nonOpVars

\* Stop, lines 162-166: m.cmd.Wait() returns once the child has exited;
\* m.process = nil; the operation returns.
OpStopWait ==
    /\ opc = "stopwait"
    /\ ochild = "exited"
    /\ oprocess' = FALSE
    /\ opc' = "returned"
    /\ UNCHANGED <<opname, opret, ochild, hostEnd, srvLoop, stopCalls, served>>
    /\ UNCHANGED nonOpVars

\* The child exits, after the signal or on its own; its copy of clientOut
\* closes with it.
OpChildExit ==
    /\ ochild = "running"
    /\ ochild' = "exited"
    /\ UNCHANGED <<opname, opc, opret, oprocess, hostEnd, srvLoop, stopCalls, served>>
    /\ UNCHANGED nonOpVars

\* Server.Start: scanner.Scan returns a line the child wrote; it is answered.
OpServe ==
    /\ srvLoop = "reading"
    /\ ochild = "running"
    /\ served < MaxLines
    /\ served' = served + 1
    /\ UNCHANGED <<opname, opc, opret, oprocess, ochild, hostEnd, srvLoop, stopCalls>>
    /\ UNCHANGED nonOpVars

\* Server.Start: scanner.Scan returns false at the end of input, that is
\* when no process holds the write end of the pipe any more; the context is
\* context.Background(), which is never done.
OpLoopEOF ==
    /\ srvLoop = "reading"
    /\ ochild # "running"
    /\ ~hostEnd
    /\ srvLoop' = "returned"
    /\ UNCHANGED <<opname, opc, opret, oprocess, ochild, hostEnd, stopCalls, served>>
    /\ UNCHANGED nonOpVars

\* The host's clientOut is closed by nothing but the finalizer of the
\* os.File, which runs when the manager and its exec.Cmd have become
\* unreachable and the collector gets to it, if ever.
OpFinalize ==
    /\ opc = "returned"
    /\ hostEnd
    /\ hostEnd' = FALSE
    /\ UNCHANGED <<opname, opc, opret, oprocess, ochild, srvLoop, stopCalls, served>>
    /\ UNCHANGED nonOpVars

(***************************************************************************)
(* mcp.applyHunk, called on its own                                        *)
(***************************************************************************)
\* The hunks applyHunk is called with: any start from 0 to past the end of
\* the file, counts that need not agree with the changes, and up to
\* MaxDiffLen changes.
HunkInputs ==
    [set : {TRUE}, oldStart : 0..(MaxFileLines + 1), oldCount : {1}, newStart : {1},
     newCount : {1},
     changes : UNION {[1..n -> {ChangeLine(" ", <<"a">>), ChangeLine("-", <<"a">>),
                                ChangeLine("+", <<"b">>)}] : n \in 1..MaxDiffLen}]

HunkInit ==
    /\ alines \in FileLines
    /\ ahunk \in HunkInputs
    /\ aout = <<>>
    /\ apc = "call"

HunkAtRest ==
    /\ alines = <<>>
    /\ ahunk = NoHunk
    /\ aout = <<>>
    /\ apc = "call"

\* applyHunk(lines, h), lines 102-131.
ApplyHunkCall ==
    /\ apc = "call"
    /\ aout' = applyHunk(alines, ahunk)
    /\ apc' = "returned"
    /\ UNCHANGED <<alines, ahunk>>
    /\ UNCHANGED nonHunkVars

(***************************************************************************)
(* Specifications                                                          *)
(***************************************************************************)
\* The frozen manager under the specifications of the other components.
MgrAtRest == MgrInit /\ goos = "posix"

\* The components of the later sections, frozen.
LateAtRest == OnceAtRest /\ WriteAtRest /\ InitAtRest /\ OpAtRest /\ HunkAtRest

\* The components of the earlier sections, frozen.
EarlyAtRest ==
    /\ LspInit /\ MgrAtRest /\ SrvInit /\ ShutInit /\ DiffAtRest /\ HandleAtRest
    /\ WaitInit /\ LoopAtRest /\ FrameAtRest /\ PosAtRest

OthersAtRest == LoopAtRest /\ FrameAtRest /\ PosAtRest /\ LateAtRest

MgrSpecInit ==
    /\ MgrInit /\ LspInit /\ SrvInit /\ ShutInit /\ DiffAtRest /\ HandleAtRest /\ WaitInit
    /\ OthersAtRest

\* Stop calls of several threads interleave.
MgrNext ==
    \/ \E o \in {"early", "late", "ok"} : MgrStart(o)
    \/ \E t \in Threads : StopCheck(t)
    \/ \E t \in Threads : StopSignal(t)
    \/ \E t \in Threads : StopWait(t)
    \/ \E t \in Threads : StopClear(t)
    \/ \E p \in Pids : MgrChildExit(p)

MgrSpec == MgrSpecInit /\ [][MgrNext]_vars

\* One call at a time: a thread enters Stop only when no other call runs.
MgrSeqNext ==
    \/ \E o \in {"early", "late", "ok"} : MgrStart(o)
    \/ \E t \in Threads : AllIdle /\ StopCheck(t)
    \/ \E t \in Threads : StopSignal(t)
    \/ \E t \in Threads : StopWait(t)
    \/ \E t \in Threads : StopClear(t)
    \/ \E p \in Pids : MgrChildExit(p)

MgrSeqSpec == MgrSpecInit /\ [][MgrSeqNext]_vars

\* The thread inside Stop is scheduled whenever it can take a step; nothing
\* forces the child to exit, not even after the termination signal.
MgrFairSpec ==
    /\ MgrSeqSpec
    /\ \A t \in Threads : WF_vars(StopSignal(t) \/ StopWait(t) \/ StopClear(t))

SrvSpecInit ==
    /\ SrvInit /\ LspInit /\ MgrAtRest /\ ShutInit /\ DiffAtRest /\ HandleAtRest /\ WaitInit
    /\ OthersAtRest

SrvNext ==
    \/ \E l \in Lines, o \in Outcomes : ServerLine(l, o)
    \/ ServerEOF
    \/ ServerCtxCancel

SrvSpec == SrvSpecInit /\ [][SrvNext]_vars

Init ==
    /\ LspInit /\ MgrAtRest /\ SrvInit /\ ShutInit /\ DiffAtRest /\ HandleAtRest /\ WaitInit
    /\ OthersAtRest

Next ==
    \/ \E i \in Calls : CallStep(i)
    \/ \E i \in Calls : CtxCancel(i)
    \/ ReaderStep
    \/ ChildExit

Spec == Init /\ [][Next]_vars

\* The Go scheduler runs every runnable goroutine; nothing forces the child to
\* answer or to exit, nor a caller to cancel its context.
FairSpec ==
    /\ Spec
    /\ \A i \in Calls : WF_vars(CallStep(i))
    /\ WF_vars(ReaderStep)

\* Threads calling Shutdown on one client while its reader runs.
ShutSpecInit ==
    /\ LspInit /\ ShutInit /\ MgrAtRest /\ SrvInit /\ DiffAtRest /\ HandleAtRest /\ WaitInit
    /\ OthersAtRest

ShutNext ==
    \/ \E t \in ShutThreads : ShutdownStep(t)
    \/ ReaderStep
    \/ ChildExit

ShutSpec == ShutSpecInit /\ [][ShutNext]_vars

\* One apply_diff request on one file, over the drawn files and diffs.
DiffSpecInit ==
    /\ DiffInit /\ LspInit /\ MgrAtRest /\ SrvInit /\ ShutInit /\ HandleAtRest /\ WaitInit
    /\ OthersAtRest

DiffNext ==
    \E paramsOK \in BOOLEAN, readOK \in BOOLEAN : HandleApplyDiff(paramsOK, readOK)

DiffSpec == DiffSpecInit /\ [][DiffNext]_vars

\* One handleRequest call, over the requests and handler returns.
HandleSpecInit ==
    /\ HandleInit /\ LspInit /\ MgrAtRest /\ SrvInit /\ ShutInit /\ DiffAtRest /\ WaitInit
    /\ OthersAtRest

HandleNext == HandleCall

HandleSpec == HandleSpecInit /\ [][HandleNext]_vars

\* Threads calling WaitForResult while children are started, write results
\* to stderr and exit.
WaitSpecInit ==
    /\ WaitInit /\ MgrAtRest /\ LspInit /\ SrvInit /\ ShutInit /\ DiffAtRest /\ HandleAtRest
    /\ OthersAtRest

WaitNext ==
    \/ \E outcome \in {"early", "late", "ok"} : MgrStart(outcome)
    \/ \E p \in Pids : MgrChildExit(p)
    \/ StderrResult
    \/ \E t \in Threads : WaitBegin(t) \/ WaitRecv(t) \/ WaitTimeout(t)

WaitSpec == WaitSpecInit /\ [][WaitNext]_vars

\* One run of Server.Start over the lines of stdin, statement by statement.
LoopSpecInit ==
    /\ LoopInit /\ LspInit /\ MgrAtRest /\ SrvInit /\ ShutInit /\ DiffAtRest /\ HandleAtRest
    /\ WaitInit /\ FrameAtRest /\ PosAtRest /\ LateAtRest

\* readResponses over everything the child wrote before it exited.
FrameSpecInit ==
    /\ FrameInit /\ LspInit /\ MgrAtRest /\ SrvInit /\ ShutInit /\ DiffAtRest /\ HandleAtRest
    /\ WaitInit /\ LoopAtRest /\ PosAtRest /\ LateAtRest

FrameNext == ReadHeader \/ ReadBlank \/ ReadEnd

FrameSpec == FrameSpecInit /\ [][FrameNext]_vars

\* One FindReferences or GoToDefinition call on one language client.
PosSpecInit ==
    /\ PosInit /\ LspInit /\ MgrAtRest /\ SrvInit /\ ShutInit /\ DiffAtRest /\ HandleAtRest
    /\ WaitInit /\ LoopAtRest /\ FrameAtRest /\ LateAtRest

PosNext ==
    \/ PosSend
    \/ \E reply \in Replies("FindReferences") \cup Replies("GoToDefinition") : PosReturn(reply)

PosSpec == PosSpecInit /\ [][PosNext]_vars

LoopNext ==
    \/ LoopScan
    \/ \E o \in Outcomes : LoopHandlerReturn(o)
    \/ LoopEncode
    \/ LoopEOF
    \/ LoopCtxCancel

LoopSpec == LoopSpecInit /\ [][LoopNext]_vars

\* Threads calling getOrCreateSidecarPath, each several times in a row, while
\* the files on disk come and go.
OnceSpecInit == OnceInit /\ EarlyAtRest /\ WriteAtRest /\ InitAtRest /\ OpAtRest /\ HunkAtRest

OnceNext ==
    \/ \E t \in Threads : GetEnter(t)
    \/ \E t \in Threads : GetLock(t)
    \/ \E t \in Threads : GetBody(t)
    \/ \E t \in Threads : GetUnlock(t)
    \/ \E t \in Threads : GetReturn(t)
    \/ AssetChange

OnceSpec == OnceSpecInit /\ [][OnceNext]_vars

\* Threads calling Call or Notify on one BaseClient at the same time.
WriteSpecInit == WriteInit /\ EarlyAtRest /\ OnceAtRest /\ InitAtRest /\ OpAtRest /\ HunkAtRest

WriteNext ==
    \/ \E t \in Threads : WriteBegin(t)
    \/ \E t \in Threads : WriteHeader(t)
    \/ \E t \in Threads : WriteBody(t)
    \/ PipeBreak

WriteSpec == WriteSpecInit /\ [][WriteNext]_vars

\* One Initialize call and one Shutdown call on one client, against a server
\* that answers, answers badly, does not answer, or exits.
InitSpecInit == InitInit /\ EarlyAtRest /\ OnceAtRest /\ WriteAtRest /\ OpAtRest /\ HunkAtRest

InitNext ==
    \/ InitializeBegin
    \/ InitializeAnswered
    \/ InitializedAnswered
    \/ InitializeCtxDone
    \/ InitCtxCancel
    \/ ShutdownBegin
    \/ ShutdownAnswered
    \/ \E c \in Callers, kind \in ReplyKinds : LspReply(c, kind)
    \/ LspExit

InitSpec == InitSpecInit /\ [][InitNext]_vars

\* The goroutine inside Initialize runs whenever it can take a step; nothing
\* forces the server to answer, nor the caller to cancel its context.
InitFairSpec ==
    /\ InitSpec
    /\ WF_vars(InitializeAnswered \/ InitializedAnswered \/ InitializeCtxDone)

\* One supervised operation, from its Start to its return, with the server
\* goroutine Start launches.
OpSpecInit == OpInit /\ EarlyAtRest /\ OnceAtRest /\ WriteAtRest /\ InitAtRest /\ HunkAtRest

OpNext ==
    \/ \E outcome \in StartOutcomes : OpStart(outcome)
    \/ \E result \in WaitOutcomes : OpWait(result)
    \/ OpStopSignal
    \/ OpStopWait
    \/ OpChildExit
    \/ OpServe
    \/ OpLoopEOF
    \/ OpFinalize

OpSpec == OpSpecInit /\ [][OpNext]_vars

\* The goroutines of the host run whenever they can take a step; the
\* collector is not bound to ever finalize a file.
OpFairSpec ==
    /\ OpSpec
    /\ WF_vars(OpStopSignal \/ OpStopWait)
    /\ WF_vars(OpServe \/ OpLoopEOF)

\* One applyHunk call, over the drawn lines and hunks.
HunkSpecInit ==
    HunkInit /\ EarlyAtRest /\ OnceAtRest /\ WriteAtRest /\ InitAtRest /\ OpAtRest

HunkNext == ApplyHunkCall

HunkSpec == HunkSpecInit /\ [][HunkNext]_vars

\* The goroutines inside Shutdown run whenever they can take a step, and the
\* reader hands over a frame it has read; nothing forces the child to answer
\* or to exit.
ShutFairSpec ==
    /\ ShutSpec
    /\ \A t \in ShutThreads : WF_vars(ShutdownStep(t))
    /\ WF_vars(ReaderSend \/ ReaderEOF)

(***************************************************************************)
(* Claims about lsp.BaseClient, checked under Spec (C4 under FairSpec)     *)
(***************************************************************************)
IsResponse(r) == r.kind \in {"result", "lspError", "parseErr"}

Cancelled(i) == cpc[i] = "done" /\ ret[i].kind = "ctxErr"

\* C1: a response frame reaches only the Call whose allocated id equals the
\* frame's id: every body the reader is sending, every body sitting in a call's
\* channel and every body a call returned carries an "id" member equal to that
\* call's id; a frame without an id is delivered to no call.
C1_NoCrossDelivery ==
    /\ rpc = "send" => rframe.hasId /\ rframe.id = cid[rtarget]
    /\ \A i \in Calls :
          /\ \A k \in 1..Len(chanBuf[i]) :
                chanBuf[i][k].hasId /\ chanBuf[i][k].id = cid[i]
          /\ IsResponse(ret[i]) => ret[i].frame.hasId /\ ret[i].frame.id = cid[i]

\* Two calls wait concurrently and the later id is answered first.
C1_Witness ==
    \E i, j \in Calls :
        /\ cid[i] < cid[j]
        /\ cpc[i] = "select" /\ chanBuf[i] = <<>>
        /\ ret[j].kind = "result"

\* C2: no two Call invocations obtain the same request id, and ids strictly
\* increase in allocation order; a cancelled call's id is not handed out again.
C2_UniqueIncreasingIds ==
    /\ \A k, l \in 1..Len(allocated) : k < l => allocated[k] < allocated[l]
    /\ \A i, j \in Calls :
          (i # j /\ cpc[i] # "idle" /\ cpc[j] # "idle") => cid[i] # cid[j]
    /\ \A i \in Calls : cpc[i] # "idle" => cid[i] >= 1

\* A call was cancelled and another call has allocated its id after it.
C2_Witness ==
    \E i, j \in Calls :
        /\ Cancelled(i)
        /\ cpc[j] # "idle"
        /\ cid[j] > cid[i]

\* C3: no request id is resolved twice: the reader sends at most one frame on
\* a call's channel, and a finished call holds exactly one outcome: a response
\* it took from its channel, or an error without a response body.
C3_ResolvedOnce ==
    \A i \in Calls :
        /\ delivered[i] <= 1
        /\ Len(chanBuf[i]) <= 1
        /\ (cpc[i] = "done") <=> (ret[i].kind # "none")
        /\ IsResponse(ret[i]) => delivered[i] = 1 /\ chanBuf[i] = <<>>
        /\ ret[i].kind \in {"ctxErr", "writeErr", "marshalErr"} =>
              ret[i].frame = NoFrame

\* The response was delivered and the context was cancelled; the call
\* returned the cancellation only.
C3_Witness ==
    \E i \in Calls :
        /\ Cancelled(i)
        /\ delivered[i] = 1
        /\ chanBuf[i] # <<>>

\* C4: a Call that is waiting when the reader loop has exited (the child
\* died) eventually returns.
C4_WaiterReturnsAfterReaderExit ==
    \A i \in Calls : (cpc[i] = "select" /\ rpc = "exited") ~> (cpc[i] = "done")

\* C5: when a Call has returned the context's error, the pending map holds no
\* entry for its id; the map holds entries only for calls still waiting.
C5_CancelRemovesPending ==
    /\ \A i \in Calls : Cancelled(i) => cid[i] \notin DOMAIN pending
    /\ \A k \in DOMAIN pending :
          cpc[pending[k]] \in {"writeHeader", "writeBody", "select"}

\* C6: after a Call was cancelled, a frame bearing its id reaches no other
\* call, the reader's send of it cannot block, and the reader leaves its loop
\* only at the end of the child's output.
C6_LateResponseDropped ==
    /\ rpc = "exited" => ~childAlive
    /\ \A i \in Calls :
          Cancelled(i) =>
             /\ \A j \in Calls \ {i} :
                   /\ IsResponse(ret[j]) => DecodedID(ret[j].frame) # cid[i]
                   /\ \A k \in 1..Len(chanBuf[j]) :
                         DecodedID(chanBuf[j][k]) # cid[i]
             /\ rpc = "send" =>
                   /\ (rtarget = i) <=> (DecodedID(rframe) = cid[i])
                   /\ rtarget = i => Len(chanBuf[i]) < ChanCap

\* A call was cancelled, the late frame with its id went to its abandoned
\* channel, and a later call received its own response.
C6_Witness ==
    \E i, j \in Calls :
        /\ Cancelled(i)
        /\ chanBuf[i] # <<>>
        /\ cid[j] > cid[i]
        /\ ret[j].kind = "result"

(***************************************************************************)
(* Claims about sidecar.MCPManager                                         *)
(***************************************************************************)
\* C9: with one call at a time, Stop is idempotent and safe before Start: as
\* long as no child was started no signal is sent, nothing is waited for and
\* no Stop call stays inside Stop; no child is signalled or waited for twice;
\* after a returned Stop the handle is nil and IsRunning is false; and a Stop
\* call that finds the handle nil returns in that step and changes nothing.
C9_StopIdempotent ==
    /\ [](/\ ~panicked
          /\ nstarts = 0 =>
                /\ AllIdle
                /\ process = NilProcess /\ ~IsRunning
                /\ \A p \in Pids : sigCount[p] = 0 /\ waitCount[p] = 0
          /\ \A p \in Pids : sigCount[p] <= 1 /\ waitCount[p] <= 1
          /\ (AllIdle /\ stopsSince >= 1) => process = NilProcess /\ ~IsRunning)
    /\ [][(process = NilProcess /\ stopsSince' = stopsSince + 1) =>
             /\ AllIdle'
             /\ UNCHANGED <<process, cmd, child, sigCount, waitCount>>]_vars

\* A started child was stopped and Stop was called once more.
C9_Witness ==
    /\ nstarts >= 1
    /\ stopsSince = 2
    /\ AllIdle
    /\ sigCount[nstarts] = 1
    /\ waitCount[nstarts] = 1

\* C10: with Stop calls of several threads interleaving, each child is sent the
\* termination signal at most once and waited for at most once, and no call
\* dereferences a handle another call has cleared.
C10_ConcurrentStopOnce ==
    /\ ~panicked
    /\ \A p \in Pids : sigCount[p] <= 1 /\ waitCount[p] <= 1

\* C25: Stop on a started child always returns: a child that does not exit
\* after the termination signal is force-killed, not waited for without end.
C25_StopReturns ==
    \A t \in Threads : (mpc[t] # "idle") ~> (mpc[t] = "idle")

(***************************************************************************)
(* Claims about mcp.Server, checked under SrvSpec                          *)
(***************************************************************************)
\* A turn of the loop that handles a line: a line was read and the context
\* was not done.
LineHandled == nread' = nread + 1 /\ ~sctxDone

\* The line is a JSON-RPC 2.0 request object.
IsRequestLine(l) == l.form = "object" /\ l.jsonrpc = "2.0"

RequestOf(l) == [method |-> l.method, id |-> l.id, seen |-> TRUE]

\* C7: a request whose method is not in the dispatch table is answered with a
\* MethodNotFound error carrying the request's id, and the loop goes on; a
\* request for a registered method that follows such an answer is dispatched
\* and answered with its own id and one of its handler's outcomes.
C7_UnknownMethodAnswered ==
    [][LineHandled =>
         LET l == slast'
             n == Len(sout)
         IN  /\ (IsRequestLine(l) /\ l.method \notin DispatchTable) =>
                   /\ sout' = Append(sout, ErrorResponse(l.id, MethodNotFound,
                                                         "Method not found", l.method))
                   /\ spc' = "scan"
             /\ (/\ \E k \in 1..n : sout[k].error.code = MethodNotFound
                 /\ IsRequestLine(l)
                 /\ l.method \in DispatchTable) =>
                   /\ sdisp' = RequestOf(l)
                   /\ Len(sout') = n + 1
                   /\ SubSeq(sout', 1, n) = sout
                   /\ sout'[n + 1].id = l.id
                   /\ sout'[n + 1].error.code \in {o.code : o \in HandlerOutcomes(l.method)}
                   /\ spc' = "scan"]_vars

\* An unknown method was answered with MethodNotFound and a later request
\* got its result.
C7_Witness ==
    \E k, m \in 1..Len(sout) :
        /\ k < m
        /\ sout[k].id = 7 /\ sout[k].error.code = MethodNotFound
        /\ sout[m].id = 7 /\ ~sout[m].error.set
        /\ sdisp.seen /\ sdisp.method \in DispatchTable

\* C8 as stated: a request line (a non-empty line) is accepted exactly when it
\* is valid JSON whose jsonrpc field equals "2.0"; every other request line
\* yields one ParseError response with a null id and the loop goes on.
C8_AcceptedIffVersion ==
    [][(LineHandled /\ slast'.form # "empty") =>
         LET l == slast'
         IN  IF ValidJSON(l) /\ l.jsonrpc = "2.0"
             THEN /\ sdisp' = RequestOf(l)
                  /\ spc' = "scan"
             ELSE /\ sdisp' = NoRequest
                  /\ sout' = Append(sout, ErrorResponse(NullId, ParseError, "err", "nil"))
                  /\ spc' = "scan"]_vars

\* C8, amended: a non-empty line is accepted exactly when it decodes into a
\* Request and its jsonrpc field equals "2.0", and its method and id then
\* reach dispatch unchanged; every other non-empty line yields one ParseError
\* response with a null id; an empty line yields no response; in each case the
\* loop goes on.
C8_AcceptedIffDecodes ==
    [][LineHandled =>
         LET l == slast'
         IN  /\ spc' = "scan"
             /\ IF l.form = "empty"
                THEN sdisp' = NoRequest /\ sout' = sout
                ELSE IF l.form = "object" /\ l.jsonrpc = "2.0"
                THEN /\ sdisp' = RequestOf(l)
                     /\ Len(sout') = Len(sout) + 1
                     /\ sout'[Len(sout')].error.code # ParseError
                ELSE /\ sdisp' = NoRequest
                     /\ sout' = Append(sout, ErrorResponse(NullId, ParseError,
                                                           "err", "nil"))]_vars

\* A line with another version was refused with a ParseError, and the line
\* after it was accepted and dispatched.
C8_Witness ==
    /\ Len(sout) >= 2
    /\ sout[Len(sout) - 1].id = NullId
    /\ sout[Len(sout) - 1].error.code = ParseError
    /\ slast.form = "object" /\ slast.jsonrpc = "2.0"
    /\ sdisp = RequestOf(slast)
    /\ spc = "scan"

(***************************************************************************)
(* Claims about lsp.BaseClient.Shutdown, checked under ShutSpec            *)
(***************************************************************************)
\* Call invocation i has issued the write of its request to the child's stdin.
RequestIssued(i) ==
    \/ cpc[i] \in {"writeBody", "select"}
    \/ cpc[i] = "done" /\ ret[i].kind # "marshalErr"

\* The Call invocations that were made at all.
CallsMade == {i \in Calls : cpc[i] # "idle"}

\* C11: Shutdown closes stdin and kills the child only after its Call has
\* issued the shutdown request and returned, and over all Shutdown calls the
\* shutdown request, the close, the kill and the wait each happen at most once.
C11_ShutdownOrderOnce ==
    /\ Cardinality(CallsMade) <= 1
    /\ closeCount <= 1
    /\ killCount <= 1
    /\ reapCount <= 1
    /\ reapCount <= killCount
    /\ killCount <= closeCount
    /\ closeCount > 0 =>
          \E i \in CallsMade : cpc[i] = "done" /\ RequestIssued(i)

\* Two Shutdown calls have returned; the first wrote the request to a live
\* child, got its answer, closed stdin, killed and reaped the child.
C11_Witness ==
    /\ \A t \in ShutThreads : shpc[t] = "returned"
    /\ \E i \in CallsMade : ret[i].kind = "result"
    /\ closeCount = 1
    /\ killCount = 1
    /\ reapCount = 1

(***************************************************************************)
(* Claims about mcp.ApplyUnifiedDiff and apply_diff, checked under DiffSpec *)
(***************************************************************************)
\* The call of ApplyUnifiedDiff returned this text and no error.
Returned(text) == dcalled /\ dres = [text |-> text, err |-> FALSE]

\* No '+' or '-' line follows a hunk header: every hunk holds context only.
ContextOnly(dl) ==
    \A k \in 1..Len(dl) :
        dl[k].kind \in {"-", "+"} => \A j \in 1..(k - 1) : dl[j].kind # "hunk"

\* C12: for every original and every diff whose hunks hold only context
\* lines, whatever their oldStart and the text of the context lines,
\* ApplyUnifiedDiff returns the original unchanged.
C12_ContextOnlyIdentity ==
    dcalled /\ ContextOnly(ddiff) => Returned(dorig)

\* A context-only hunk that starts past line 1 and whose context line is
\* no line of the original has been applied.
C12_Witness ==
    /\ dcalled
    /\ ContextOnly(ddiff)
    /\ \E k \in 1..Len(ddiff), j \in 1..Len(ddiff) :
          /\ k < j
          /\ ddiff[k].kind = "hunk" /\ ddiff[k].oldStart > 1
          /\ ddiff[j].kind = " "
          /\ \A n \in 1..Len(Split(dorig)) : Split(dorig)[n] # ddiff[j].content
    /\ Len(Split(dorig)) > 1

\* The diff has no line that is a hunk header.
NoHunkHeader(dl) == \A k \in 1..Len(dl) : dl[k].kind # "hunk"

\* C13: for every original, with or without a trailing newline and the
\* empty text included, ApplyUnifiedDiff with the empty diff, or with any
\* diff that has no hunk header, returns the original and no error.
C13_EmptyDiffIdentity ==
    dcalled /\ NoHunkHeader(ddiff) => ~dres.err /\ dres.text = dorig

\* The empty diff has been applied to a text without a trailing newline, and
\* a diff of other lines but no header to a text with one.
C13_Witness ==
    /\ dcalled
    /\ dorig # <<>>
    /\ \/ ddiff = <<EmptyLine>> /\ dorig[Len(dorig)] # Newline
       \/ /\ NoHunkHeader(ddiff)
          /\ \E k \in 1..Len(ddiff) : ddiff[k].kind = "+"
          /\ dorig[Len(dorig)] = Newline
          /\ Len(dorig) > 1

\* C14: when the diff is the unified diff generated from A to B, and B is A
\* after one line added, removed or modified, ApplyUnifiedDiff(A, diff) is B.
C14_RoundTrip ==
    dcalled /\ dexpect # NoText => Returned(dexpect)

\* A generated diff whose hunk starts past line 1 has been applied to a
\* file and gave the edited file.
C14_Witness ==
    /\ Returned(dexpect)
    /\ dexpect # dorig
    /\ \E k \in 1..Len(ddiff) : ddiff[k].kind = "hunk" /\ ddiff[k].oldStart > 1

\* Number of lines of the original a hunk walks over.
OldLines(h) == Cardinality({k \in 1..Len(h.changes) : h.changes[k].kind \in {" ", "-"}})

\* The hunks lie inside the original, in ascending order, none reaching
\* into the next.
DisjointAscending(lines, hunks) ==
    /\ \A i \in 1..Len(hunks) :
          /\ hunks[i].oldStart >= 1
          /\ hunks[i].oldStart - 1 + OldLines(hunks[i]) <= Len(lines)
    /\ \A i \in 1..(Len(hunks) - 1) :
          hunks[i].oldStart - 1 + OldLines(hunks[i]) < hunks[i + 1].oldStart

RECURSIVE ForwardPass(_, _, _, _)
\* One pass down the original: each hunk in turn is applied at its own
\* line numbers of the original, lineIdx being the lines consumed so far.
ForwardPass(lines, hunks, lineIdx, result) ==
    IF hunks = <<>> THEN result \o LinesFrom(lines, lineIdx)
    ELSE LET h   == Head(hunks)
             pre == Max(lineIdx, Min(h.oldStart - 1, Len(lines)))
             r   == ApplyChanges(lines, h.changes, pre,
                                 result \o SubSeq(lines, lineIdx + 1, pre))
         IN  ForwardPass(lines, Tail(hunks), r.lineIdx, r.result)

\* C15: for a diff whose hunks are disjoint and in ascending order, applying
\* the hunks last-first gives the text a single forward pass gives that
\* applies every hunk at its original line numbers.
C15_ReverseEqualsForward ==
    dcalled /\ DisjointAscending(Split(dorig), parseHunks(ddiff)) =>
        Returned(Join(ForwardPass(Split(dorig), parseHunks(ddiff), 0, <<>>)))

\* Two disjoint hunks have been applied, the first changing the number of
\* lines above the second, the second removing a line.
C15_Witness ==
    LET hunks == parseHunks(ddiff) IN
    /\ dcalled
    /\ Len(hunks) = 2
    /\ DisjointAscending(Split(dorig), hunks)
    /\ \A k \in 1..Len(hunks[1].changes) : hunks[1].changes[k].kind = "+"
    /\ \E k \in 1..Len(hunks[2].changes) : hunks[2].changes[k].kind = "-"
    /\ hunks[2].oldStart > hunks[1].oldStart
    /\ dres.text # dorig

\* The diff has a line that starts with "@@ " and is no hunk header.
Malformed(dl) == \E k \in 1..Len(dl) : dl[k].kind = "badhunk"

\* A hunk walks over lines past the end of the original.
PastEnd(lines, hunks) ==
    \E i \in 1..Len(hunks) : Max(hunks[i].oldStart - 1, 0) + OldLines(hunks[i]) > Len(lines)

\* C16: applying a patch fails with an error, which apply_diff answers as an
\* error response, when the diff has a malformed hunk header or a hunk that
\* refers to lines past the end of the original.
C16_PatchErrorOnMalformed ==
    dcalled /\ (Malformed(ddiff) \/ PastEnd(Split(dorig), parseHunks(ddiff))) =>
        dres.err /\ dresp = ParseFailure

\* C17: apply_diff is all-or-nothing: after an error response the file holds
\* what it held before the request, and after a success it holds the whole
\* result of applying every hunk.
C17_AllOrNothing ==
    dpc = "responded" =>
        /\ dresp # 0 => dfile = dorig
        /\ dresp = 0 => dcalled /\ dfile = dres.text

\* The change is what a "--- " or "+++ " line gives when it is read as a
\* removal or an addition.
HeaderChange(c) ==
    /\ Len(c.content) >= 3
    /\ \/ c.kind = "-" /\ SubSeq(c.content, 1, 3) = <<"-", "-", " ">>
       \/ c.kind = "+" /\ SubSeq(c.content, 1, 3) = <<"+", "+", " ">>

\* C28: the "---" and "+++" file header lines are ignored by the parser
\* wherever they stand in the diff, also after a hunk: no hunk holds one of
\* them as a removal or an addition.
C28_FileHeadersIgnored ==
    dcalled =>
        \A i \in 1..Len(parseHunks(ddiff)) :
            \A k \in 1..Len(parseHunks(ddiff)[i].changes) :
                ~HeaderChange(parseHunks(ddiff)[i].changes[k])

RECURSIVE ChangesUpToHeader(_)
\* The ' ', '+' and '-' lines of dl that come before its first line
\* starting with "@@ ".
ChangesUpToHeader(dl) ==
    IF dl = <<>> \/ Head(dl).kind \in {"hunk", "badhunk"} THEN <<>>
    ELSE IF Head(dl).kind \in {" ", "-", "+"}
    THEN <<[kind |-> Head(dl).kind, content |-> Head(dl).content]>>
         \o ChangesUpToHeader(Tail(dl))
    ELSE ChangesUpToHeader(Tail(dl))

RECURSIVE HunksByHeader(_)
\* One hunk for each line that matches the header pattern, in order, with
\* the change lines up to the next line starting with "@@ ".
HunksByHeader(dl) ==
    IF dl = <<>> THEN <<>>
    ELSE IF Head(dl).kind = "hunk"
    THEN <<[NewHunk(Head(dl)) EXCEPT !.changes = ChangesUpToHeader(Tail(dl))]>>
         \o HunksByHeader(Tail(dl))
    ELSE HunksByHeader(Tail(dl))

\* C29: parseHunks returns exactly one hunk for each line that matches the
\* header pattern, in order of appearance, each with exactly the ' ', '+'
\* and '-' lines between its header and the next line starting with "@@ ";
\* a line starting with "@@ " that does not match the pattern adds no hunk
\* and does not make an earlier hunk appear twice.
C29_OneHunkPerHeader ==
    dcalled => parseHunks(ddiff) = HunksByHeader(ddiff)

\* Number of changes of a hunk of one kind.
Count(h, kind) == Cardinality({k \in 1..Len(h.changes) : h.changes[k].kind = kind})

\* The hunk applyHunk is called with on the lines of the original: the last.
FirstApplied == parseHunks(ddiff)[Len(parseHunks(ddiff))]

\* C30: for a hunk whose range lies inside the file (oldStart >= 1, and
\* oldStart - 1 plus its context and removal lines at most the number of
\* lines), applyHunk returns len(lines) plus the '+' changes minus the '-'
\* changes lines; the lines before oldStart and the lines after the hunk's
\* range are the original lines, in their order.
C30_ApplyHunkInRange ==
    (dcalled /\ parseHunks(ddiff) # <<>>) =>
        LET lines == Split(dorig)
            h     == FirstApplied
            out   == applyHunk(lines, h)
            last  == h.oldStart - 1 + OldLines(h)
            rest  == Len(lines) - last
        IN  (h.oldStart >= 1 /\ last <= Len(lines)) =>
                /\ Len(out) = Len(lines) + Count(h, "+") - Count(h, "-")
                /\ SubSeq(out, 1, h.oldStart - 1) = SubSeq(lines, 1, h.oldStart - 1)
                /\ SubSeq(out, Len(out) - rest + 1, Len(out))
                      = SubSeq(lines, last + 1, Len(lines))

\* A hunk that starts past line 1 and ends before the last line has removed
\* a line of the file.
C30_Witness ==
    /\ dcalled
    /\ parseHunks(ddiff) # <<>>
    /\ FirstApplied.oldStart > 1
    /\ FirstApplied.oldStart - 1 + OldLines(FirstApplied) < Len(Split(dorig))
    /\ Count(FirstApplied, "-") > 0
    /\ Len(applyHunk(Split(dorig), FirstApplied)) = Len(Split(dorig)) - 1

(***************************************************************************)
(* Claims about Server.handleRequest, checked under HandleSpec             *)
(***************************************************************************)
\* handleRequest has returned for a request whose method has a handler.
Handled == hresp # NoResponse /\ hreq.method \in DispatchTable

\* C18: every response produced for a parsed request echoes the request's id
\* and carries exactly one of result and error: a handler success gives its
\* result and no error; a typed ErrorObject gives an error with that object's
\* code, message and data; any other failure gives an error with code
\* InternalError.
C18_ResultXorError ==
    hresp # NoResponse =>
        /\ hresp.id = hreq.id
        /\ hresp.result.nil = hresp.error.set
        /\ (Handled /\ hout.kind = "ok") =>
              hresp.result = hout.result /\ ~hresp.error.set
        /\ (Handled /\ hout.kind = "rpc") =>
              hresp.error = NewError(hout.code, hout.message, hout.data)
        /\ (Handled /\ hout.kind = "generic") =>
              hresp.error.set /\ hresp.error.code = InternalError

\* A handler's typed error other than InternalError has been answered, for
\* a request that carries an id.
C18_Witness ==
    /\ Handled
    /\ hreq.id # NullId
    /\ hout.kind = "rpc"
    /\ hout.code # InternalError
    /\ hresp.error.code = hout.code
    /\ hresp.result.nil

\* C19 as stated: the names advertised in the initialize response are exactly
\* the methods of the dispatch table.
C19_AdvertisedIsTable ==
    (Handled /\ hreq.method = "initialize" /\ hout.kind = "ok") =>
        hresp.result.tools = DispatchTable

\* C19, amended: the names advertised in the initialize response are exactly
\* the methods of the dispatch table other than initialize and shutdown;
\* every advertised name is in the table.
C19_AdvertisedIsToolTable ==
    (Handled /\ hreq.method = "initialize" /\ hout.kind = "ok") =>
        /\ hresp.result.tools = DispatchTable \ {"initialize", "shutdown"}
        /\ hresp.result.tools \subseteq DispatchTable

\* An initialize request has been answered with its list of tools.
C19_Witness ==
    /\ Handled
    /\ hreq.method = "initialize"
    /\ hout.kind = "ok"
    /\ hresp.result.tools # {}
    /\ ~hresp.error.set

\* The statements that are a handler's underlying operation.
OperationSteps == {"read", "lsp", "run", "checkpoint", "commit", "rollback", "walk"}

\* C22: when the underlying operation of a handler fails, the request is
\* answered with an error response whose code lies in the application range
\* -32005..-32001, never with a result.
C22_FailureInApplicationRange ==
    (Handled /\ hfailed \in OperationSteps) =>
        /\ hresp.error.set
        /\ hresp.result.nil
        /\ hresp.error.code \in (-32005)..(-32001)

(***************************************************************************)
(* Claims about MCPManager.WaitForResult, checked under WaitSpec           *)
(***************************************************************************)
\* Thread t's WaitForResult returns in this step.
WaitReturns(t) == wret[t].kind = "none" /\ wret'[t].kind # "none"

\* C20: WaitForResult returns either the result delivered on the side channel
\* or the timeout error; on timeout it neither signals nor stops the child and
\* leaves the process handle as it is; a result that arrives when the channel
\* is empty, as after a timeout, is kept, and stays in the channel until a
\* WaitForResult call returns it.
C20_TimeoutLeavesChild ==
    [][/\ \A t \in Threads : WaitReturns(t) =>
             /\ UNCHANGED <<process, cmd, child, sigCount, waitCount, panicked>>
             /\ \/ /\ wret'[t].kind = "timeout"
                   /\ resultChan' = resultChan
                \/ /\ wret'[t].kind = "result"
                   /\ resultChan # <<>>
                   /\ wret'[t].value = Head(resultChan)
                   /\ resultChan' = Tail(resultChan)
       /\ (emitted' # emitted /\ resultChan = <<>>) => resultChan' = <<emitted'>>
       /\ (resultChan # <<>> /\ resultChan' # resultChan) =>
             \E t \in Threads : WaitReturns(t) /\ wret'[t].kind = "result"]_vars

\* One call timed out while a child was running; a result that arrived after
\* that was returned by a later call, the process handle still held.
C20_Witness ==
    \E t1, t2 \in Threads :
        /\ wret[t1].kind = "timeout"
        /\ wret[t2].kind = "result"
        /\ wret[t2].value > wret[t1].at
        /\ process # NilProcess
        /\ sigCount = [p \in Pids |-> 0]

\* The number of results decoded when a result was last taken from the
\* channel, 0 when none was taken yet.
LastTaken ==
    LET at == {0} \cup {wret[t].at : t \in {u \in Threads : wret[u].kind = "result"}}
    IN  CHOOSE m \in at : \A n \in at : n <= m

\* C27: the side-channel reader never blocks on delivery: a RESULT line
\* decoded while an earlier result is still unconsumed in the channel is
\* dropped and the reader goes on; so the next WaitForResult returns the
\* first result produced since the channel was last emptied.
C27_FirstResultWins ==
    [][/\ (emitted' # emitted /\ resultChan # <<>>) =>
             /\ emitted' = emitted + 1
             /\ resultChan' = resultChan
       /\ \A t \in Threads : (WaitReturns(t) /\ wret'[t].kind = "result") =>
             wret'[t].value = LastTaken + 1]_vars

\* Two results were produced before any was consumed, and the call that
\* came after them returned the first.
C27_Witness ==
    \E t \in Threads :
        /\ wret[t].kind = "result"
        /\ wret[t].value = 1
        /\ wret[t].at = 2
        /\ resultChan = <<>>

(***************************************************************************)
(* Claims about the loop of Server.Start, checked under LoopSpec           *)
(***************************************************************************)
\* The lines among the first n of stdin that are answered: the non-empty ones.
Answerable(n) == {k \in 1..n : stdinLines[k].form # "empty"}

\* The id the response to line k carries.
AnswerId(k) ==
    IF ParseRequest(stdinLines[k]).ok THEN stdinLines[k].id ELSE NullId

\* C21: requests are handled one at a time in arrival order: at most one
\* handler executes at any moment; whenever the loop is about to read a line,
\* every non-empty line read so far has its response on stdout; and the
\* responses on stdout answer the lines of stdin in the order of the lines.
C21_OneAtATimeInOrder ==
    /\ Cardinality(handling) <= 1
    /\ loopPc = "scan" =>
          /\ handling = {}
          /\ {stdout[j].line : j \in 1..Len(stdout)} = Answerable(scanned)
    /\ \A j \in 1..Len(stdout) :
          /\ stdout[j].line \in Answerable(scanned)
          /\ stdout[j].response.id = AnswerId(stdout[j].line)
          /\ j > 1 => stdout[j - 1].line < stdout[j].line

\* Three lines were read and answered in turn: a request, a line that does
\* not parse, and a request again, the loop being ready for the next line.
C21_Witness ==
    /\ loopPc = "scan"
    /\ scanned = 3
    /\ Len(stdout) = 3
    /\ ~stdout[1].response.error.set
    /\ stdout[2].response.error.code = ParseError
    /\ stdout[3].response.error.code = FileNotFound

(***************************************************************************)
(* Claims about the framing of readResponses, checked under FrameSpec      *)
(***************************************************************************)
\* The pieces that are frames with a numeric Content-Length.
Framed == {"frame1", "frame2", "typed", "twice", "notify", "badjson"}

\* The body of a frame.
BodyOf(piece) ==
    LET b == PieceBytes(piece)
        k == CHOOSE k \in 1..Len(b) : b[k] = "{"
    IN  SubSeq(b, k, Len(b))

RECURSIVE Answers(_, _)
\* The ids the frames of ps answer, each at its first well-formed frame,
\* among the ids still awaited.
Answers(ps, awaited) ==
    IF ps = <<>> THEN <<>>
    ELSE LET r == Unmarshal(BodyOf(Head(ps))) IN
         IF Head(ps) \in Framed /\ r.ok /\ r.id \in awaited
         THEN <<r.id>> \o Answers(Tail(ps), awaited \ {r.id})
         ELSE Answers(Tail(ps), awaited)

\* C23: a frame whose body is no JSON value, or whose Content-Length is no
\* number, fails alone: when the reader has read all the child wrote, every
\* well-formed frame, before or after such a frame, has been handed to its
\* waiting caller.
C23_MalformedFailsOnlyItsFrame ==
    readerPc = "returned" => handed = Answers(pieces, {1, 2})

RECURSIVE BodiesOf(_)
\* The bodies of the frames of ps, in order.
BodiesOf(ps) ==
    IF ps = <<>> THEN <<>>
    ELSE IF Head(ps) \in Framed THEN <<BodyOf(Head(ps))>> \o BodiesOf(Tail(ps))
    ELSE BodiesOf(Tail(ps))

\* The reader takes a line in this step, and the line is empty.
BlankRead == consumed' # consumed /\ HasLine /\ TrimSpace(NextLine) = <<>>

\* C26: the reader gathers header lines until an empty line and ignores
\* every header line that does not start with "Content-Length: "; at the
\* empty line it reads exactly contentLength bytes as the body, the value of
\* the last Content-Length header, and sets contentLength back to 0; an empty
\* line met with no Content-Length header before it consumes no body; so of
\* a stream of well-formed frames and stray empty lines every body is read
\* once, in order.
C26_TwoStateReader ==
    [][/\ (consumed' # consumed /\ HasLine /\ TrimSpace(NextLine) # <<>>) =>
             /\ bodies' = bodies
             /\ consumed' = consumed + Len(NextLine)
             /\ Head(TrimSpace(NextLine)) # "C" => contentLength' = contentLength
       /\ (BlankRead /\ contentLength = 0) =>
             /\ bodies' = bodies
             /\ consumed' = consumed + 1
             /\ contentLength' = 0
       /\ (BlankRead /\ contentLength > 0 /\ readerPc' = "loop") =>
             /\ bodies' = Append(bodies, SubSeq(stream, consumed + 2,
                                                consumed + 1 + contentLength))
             /\ consumed' = consumed + 1 + contentLength
             /\ contentLength' = 0
       /\ (readerPc' = "returned" /\ \A k \in 1..Len(pieces) : pieces[k] \in Framed \cup {"blank"}) =>
             /\ bodies' = BodiesOf(pieces)
             /\ consumed' = Len(stream)]_vars

\* The reader has returned after a frame with a second header, a stray empty
\* line and a frame with two Content-Length headers; both bodies were read
\* and handed over.
C26_Witness ==
    /\ readerPc = "returned"
    /\ pieces = <<"typed", "blank", "twice">>
    /\ bodies = <<BodyOf("typed"), BodyOf("twice")>>
    /\ handed = <<1, 2>>

(***************************************************************************)
(* Claims about the language clients' positions, checked under PosSpec     *)
(***************************************************************************)
\* C24: for each language client, FindReferences and GoToDefinition called
\* with the public position (line, column), line >= 1, send the wire position
\* (line - 1, column), and return each wire location (l, c) as the public
\* position (l + 1, c); a location that echoes the wire position sent comes
\* back as the position the caller passed.
C24_PositionsConverted ==
    /\ ppc # "idle" =>
          /\ pwire.Line = ppublic.Line - 1
          /\ pwire.Character = ppublic.Column
    /\ (ppc = "returned" /\ preply.ok) =>
          /\ Len(presult) = Len(preply.locations)
          /\ \A k \in 1..Len(presult) :
                /\ presult[k].Line = preply.locations[k].Line + 1
                /\ presult[k].Column = preply.locations[k].Character
                /\ preply.locations[k] = pwire => presult[k] = ppublic

\* A client returned two references, one of them the echo of the position
\* it was asked about, on a line past the first and a column past 0.
C24_Witness ==
    /\ ppc = "returned"
    /\ pmethod = "FindReferences"
    /\ pclient = "python"
    /\ ppublic.Line > 1 /\ ppublic.Column > 0
    /\ Len(presult) = 2
    /\ preply.locations[2] = pwire
    /\ presult[2] = ppublic
    /\ presult[1] # ppublic

(***************************************************************************)
(* Claims about getOrCreateSidecarPath, checked under OnceSpec             *)
(***************************************************************************)
\* C31: over any number of sequential or concurrent getOrCreateSidecarPath
\* calls the lookup body runs at most once, exactly once when a call has
\* returned, and every call returns the same (path, error) pair; a failed
\* first attempt is what every later call returns, with no second attempt.
C31_ResolvedOnce ==
    /\ bodyRuns <= 1
    /\ gret # {} => bodyRuns = 1
    /\ Cardinality(gret) <= 1

\* Both threads have returned the failure of the first attempt twice, at a
\* time when a second attempt would succeed.
C31_Witness ==
    /\ \A t \in Threads : gcalls[t] = MaxGets /\ gpc[t] = "idle"
    /\ gret = {PathPair("", TRUE)}
    /\ assetOK

(***************************************************************************)
(* Claims about the writes of Call and Notify, checked under WriteSpec     *)
(***************************************************************************)
\* C32: every frame reaches the child's stdin in one piece: the write that
\* follows a frame's Content-Length header on c.stdin is the body of the
\* same frame, whatever other threads run Call or Notify on the client.
C32_FramesContiguous ==
    \A k \in 1..Len(stdinBytes) - 1 :
        stdinBytes[k].part = "header" =>
            stdinBytes[k + 1] = Written(stdinBytes[k].by, "body")

(***************************************************************************)
(* Claims about the failing writes of Call, checked under Spec             *)
(***************************************************************************)
\* C33: when a Call has returned a write error (the header or the body could
\* not be written to the child's stdin), the pending map holds no entry for
\* the id of that call.
C33_WriteErrorRemovesPending ==
    \A i \in Calls :
        (cpc[i] = "done" /\ ret[i].kind = "writeErr") => cid[i] \notin DOMAIN pending

(***************************************************************************)
(* Claims about Initialize and Shutdown, checked under InitSpec            *)
(***************************************************************************)
\* C34: IsInitialized() is false until Initialize has returned success (also
\* after a failed `initialize` or `initialized` step), true after a
\* successful Initialize, and false again once Shutdown has returned.
C34_CapabilityStates ==
    /\ (ipc # "returned" \/ iret # "nil") => ~IsInitialized
    /\ (ipc = "returned" /\ iret = "nil" /\ sdpc # "returned") => IsInitialized
    /\ sdpc = "returned" => ~IsInitialized

\* C35: once the server has answered `initialize` with a result, Initialize
\* returns, whether or not the server ever replies to `initialized`.
C35_InitializeCompletes ==
    (ipc = "initialized") ~> (ipc = "returned")

(***************************************************************************)
(* Claims about the supervised operations, checked under OpSpec            *)
(***************************************************************************)
\* C36: an operation whose Start succeeded has called Stop before it
\* returns, on every path (result, error string, malformed result, timeout),
\* and returns with no process handle held; an operation whose Start failed
\* returns with no process handle held either.
C36_StopBeforeReturn ==
    opc = "returned" =>
        /\ ~oprocess
        /\ opret # "start failed" => (stopCalls = 1 /\ ochild = "exited")
        /\ opret = "start failed" => (stopCalls = 0 /\ ochild = "none")

\* An operation has returned the timeout error after stopping its child.
C36_Witness ==
    /\ opc = "returned"
    /\ opret = "timeout"
    /\ stopCalls = 1
    /\ ochild = "exited"

\* C37: after Stop has returned for a started child, the server loop that
\* Start launched reaches the end of its input and terminates.
C37_ServerLoopEnds ==
    (opc = "returned" /\ opret # "start failed") ~> (srvLoop = "returned")

(***************************************************************************)
(* Claims about the responses of Server.Start, checked under SrvSpec       *)
(***************************************************************************)
\* C38: while the context is not cancelled, every non-empty line read gets
\* exactly one response (a ParseError response with a null id when it is no
\* request, the outcome of its dispatch otherwise, also without an id and for
\* `shutdown`), an empty line gets none, and the loop goes on; a line read
\* after the cancellation is not dispatched and not answered, and Start
\* returns the context's error.
C38_OneResponsePerLine ==
    [][nread' = nread + 1 =>
         LET l == slast'
             n == Len(sout)
         IN  IF sctxDone
             THEN /\ sout' = sout
                  /\ sdisp' = NoRequest
                  /\ spc' = "returned"
                  /\ sret' = "ctx.Err()"
             ELSE /\ spc' = "scan"
                  /\ sret' = "none"
                  /\ l.form = "empty" => sout' = sout
                  /\ l.form # "empty" =>
                        /\ Len(sout') = n + 1
                        /\ SubSeq(sout', 1, n) = sout
                        /\ IF IsRequestLine(l)
                           THEN /\ sdisp' = RequestOf(l)
                                /\ sout'[n + 1] \in
                                      {HandleRequest(RequestOf(l), o) :
                                          o \in HandlerOutcomes(l.method)}
                           ELSE sout'[n + 1] =
                                   ErrorResponse(NullId, ParseError, "err", "nil")]_vars

\* A `shutdown` request without an id was answered, the loop went on to
\* answer a line that is no request, and the line read after the context
\* was cancelled ended Start without a response.
C38_Witness ==
    /\ spc = "returned"
    /\ sret = "ctx.Err()"
    /\ nread = 3
    /\ Len(sout) = 2
    /\ sout[1].id = NullId /\ sout[1].result.status = "shutdown"
    /\ sout[2].error.code = ParseError

(***************************************************************************)
(* Claims about applyHunk on its own, checked under HunkSpec               *)
(***************************************************************************)
\* The changes of a hunk with text t on every context and removal line.
Retext(changes, t) ==
    [k \in 1..Len(changes) |->
        IF changes[k].kind \in {" ", "-"}
        THEN [changes[k] EXCEPT !.content = t]
        ELSE changes[k]]

\* Hunks that differ from h in oldCount, newStart and newCount, and in the
\* text of the context and removal lines, and in nothing else.
HunkVariants(h) ==
    {[h EXCEPT !.oldCount = oc, !.newStart = ns, !.newCount = nc, !.changes = c] :
        oc \in {0, MaxFileLines + 1}, ns \in {0, MaxFileLines + 1},
        nc \in {0, MaxFileLines + 1},
        c \in {h.changes} \cup {Retext(h.changes, t) : t \in LineTexts}}

\* C39: the result of applyHunk depends only on the original lines, the
\* hunk's oldStart, the kinds of its changes and the text of its '+' lines:
\* a hunk that differs only in oldCount, newStart, newCount or in the text
\* of its context and removal lines gives the same result on the same lines.
C39_ApplyHunkIgnoresCountsAndText ==
    apc = "returned" =>
        \A v \in HunkVariants(ahunk) : applyHunk(alines, v) = aout

\* A hunk was applied whose context line does not carry the text of the line
\* it stands for, whose next line removes a line, and whose oldCount is not
\* the number of its old lines.
C39_Witness ==
    /\ apc = "returned"
    /\ ahunk.oldStart = 2
    /\ Len(alines) = 3
    /\ Len(ahunk.changes) = 2
    /\ ahunk.changes[1].kind = " " /\ ahunk.changes[1].content # alines[2]
    /\ ahunk.changes[2].kind = "-"
    /\ ahunk.oldCount # 2
    /\ aout = <<alines[1], alines[2]>>

(***************************************************************************)
(* Claims about the end of Shutdown, checked under ShutFairSpec            *)
(***************************************************************************)
\* C40: every Shutdown call returns, and by then the child has been killed,
\* also when the live child never answers the `shutdown` request.
C40_ShutdownReturns ==
    \A t \in ShutThreads :
        (shpc[t] # "idle") ~> (shpc[t] = "returned" /\ ~childAlive)

====
